---- MODULE Spec2Model ----
(***************************************************************************)
(* Model of the ShiftSchedule backend solver (backend/solver.py).          *)
(*                                                                         *)
(* A run loads one normalised AppState, receives one request and answers   *)
(* it with solve_day or solve_week.  Dates are day numbers (ISO date       *)
(* strings of equal width compare exactly like the day numbers they name), *)
(* times are <<hour, minute>> pairs standing for "HH:MM" strings, slot ids *)
(* "class::sub" are pairs <<class, sub>>.  The CP-SAT engine is modelled   *)
(* as an exact minimiser: it returns one of the optimal solutions of the   *)
(* model that the code builds, or reports infeasibility when there is none.*)
(***************************************************************************)
EXTENDS Integers, Sequences, FiniteSets, TLC

VARIABLES store, state, payload, pc, locals, response

vars == <<store, state, payload, pc, locals, response>>

----------------------------------------------------------------------------
(* Bounds of the explored inputs *)

MaxManual == 2

MaxTarget == 2

MaxRestDays == 2

(* Program constants *)

BIG == 20

None == -1

NoteNoSolution == "No solution"

NoteSlack == "Could not fill all required slots."

NoteBoundary == "Rest day conflicts outside the selected range; some boundary days are already assigned."

(* row ids of assignments are the id split at "::", so a pool id is a 1-tuple *)
ignored_pool_rows == {<<"pool-not-allocated">>, <<"pool-vacation">>}

----------------------------------------------------------------------------
(* Small arithmetic helpers *)

Max(a, b) == IF a >= b THEN a ELSE b

Min(a, b) == IF a <= b THEN a ELSE b

RECURSIVE SumOver(_, _)
SumOver(S, f) ==
    IF S = {} THEN 0
    ELSE LET e == CHOOSE e \in S : TRUE IN f[e] + SumOver(S \ {e}, f)

(* Python's `value or default`: None and 0 are both falsy *)
OrElse(value, default) == IF value = None \/ value = 0 THEN default ELSE value

----------------------------------------------------------------------------
(* Calendar *)

(* date.weekday() with day 0 a Wednesday: days 3 and 4 are a weekend *)
Weekday(d) == (d + 2) % 7

is_weekend_or_holiday(d) ==
    Weekday(d) >= 5 \/ d \in state.holidays

----------------------------------------------------------------------------
(* Time parsing and slot intervals *)

_parse_time_to_minutes(value) ==
    IF value = <<>> THEN None
    ELSE IF Len(value) # 2 THEN None
    ELSE IF value[1] < 0 \/ value[1] > 23 \/ value[2] < 0 \/ value[2] > 59 THEN None
    ELSE value[1] * 60 + value[2]

class_rows == SelectSeq(state.rows, LAMBDA row : row.kind = "class")

total_classes == Len(class_rows)

shift_rows ==
    { [row |-> class_rows[i], shift |-> class_rows[i].subShifts[j],
       sid |-> <<class_rows[i].id, class_rows[i].subShifts[j].id>>,
       index |-> i - 1] :
         <<i, j>> \in { p \in (1..Len(class_rows)) \X (1..3) :
                          p[2] <= Len(class_rows[p[1]].subShifts) } }

shift_row_ids == { sr.sid : sr \in shift_rows }

ShiftRowOf(sid) == CHOOSE sr \in shift_rows : sr.sid = sid

parent_by_shift_id(sid) == ShiftRowOf(sid).row.id

_build_shift_intervals(sid) ==
    LET sr        == ShiftRowOf(sid)
        start     == OrElse(_parse_time_to_minutes(sr.shift.startTime), 0)
        end       == OrElse(_parse_time_to_minutes(sr.shift.endTime), start)
        offset    == sr.shift.endDayOffset
        total_end == end + Max(0, Min(3, offset)) * 24 * 60
    IN  [start |-> start,
         end   |-> IF total_end <= start THEN start ELSE total_end,
         loc   |-> sr.row.locationId]

----------------------------------------------------------------------------
(* Shared by both solvers: vacations, targets, weights *)

(* variant: the last day of a vacation range is treated as a working day *)
is_on_vac_ExclusiveEnd(clinician_id, date_iso) ==
    \E c \in state.clinicians :
        /\ c.id = clinician_id
        /\ \E v \in c.vacations : v.startISO <= date_iso /\ date_iso < v.endISO

is_on_vac(clinician_id, date_iso) ==
    \E c \in state.clinicians :
        /\ c.id = clinician_id
        /\ \E v \in c.vacations : v.startISO <= date_iso /\ date_iso <= v.endISO

required(sid) ==
    IF sid \in DOMAIN state.minSlotsByRowId
    THEN state.minSlotsByRowId[sid]
    ELSE [weekday |-> 0, weekend |-> 0]

override(sid, d) ==
    IF <<sid, d>> \in DOMAIN state.slotOverridesByKey
    THEN state.slotOverridesByKey[<<sid, d>>]
    ELSE 0

Target(sid, d) ==
    LET base_target == IF is_weekend_or_holiday(d)
                       THEN required(sid).weekend ELSE required(sid).weekday
    IN  Max(0, base_target + override(sid, d))

order_weight(sid) ==
    LET sr == ShiftRowOf(sid)
    IN  Max(1, total_classes - sr.index) * 10 + (4 - sr.shift.order)

pref_weight(cid, class_id) ==
    LET c         == CHOOSE cl \in state.clinicians : cl.id = cid
        preferred == c.preferredClassIds
        hits      == { i \in 1..Len(preferred) : preferred[i] = class_id }
    IN  IF hits = {} THEN 0
        ELSE LET last == CHOOSE i \in hits : \A k \in hits : k <= i
             IN  Max(1, Len(preferred) - (last - 1))

PrefWeights ==
    [cid \in { c.id : c \in state.clinicians } |->
        [class_id \in { sr.row.id : sr \in shift_rows } |-> pref_weight(cid, class_id)]]

----------------------------------------------------------------------------
(* solve_week: request range, context range, manual assignments, variables *)

range_start == payload.startISO

(* variant: the default range is one day longer *)
range_end_EightDays == IF payload.endISO = None THEN range_start + 7 ELSE payload.endISO

range_end == IF payload.endISO = None THEN range_start + 6 ELSE payload.endISO

context_start == range_start - 1

context_end == range_end + 1

day_isos == context_start .. context_end

target_day_isos == range_start .. range_end

day_index_by_iso(d) == d - context_start

manual_assignments ==
    { a \in state.assignments :
        /\ a.rowId \in shift_row_ids
        /\ a.dateISO \in day_isos
        /\ ~is_on_vac(a.clinicianId, a.dateISO) }

solver_settings == state.solverSettings

(* variant: variables are created without the qualification test *)
var_map_Unqualified ==
    { <<t[1].id, t[2], t[3].sid>> :
        t \in { u \in state.clinicians \X target_day_isos \X shift_rows :
                  ~is_on_vac(u[1].id, u[2]) } }

(* decision variables x[c, D, s]; a solution is the set of keys set to 1 *)
var_map ==
    { <<t[1].id, t[2], t[3].sid>> :
        t \in { u \in state.clinicians \X target_day_isos \X shift_rows :
                  /\ ~is_on_vac(u[1].id, u[2])
                  /\ u[3].row.id \in u[1].qualifiedClassIds } }

Instances == shift_row_ids \X target_day_isos

get_manual_count(date_iso, shift_row_id) ==
    Cardinality({ m \in manual_assignments :
                    m.dateISO = date_iso /\ m.rowId = shift_row_id })

Missing(sid, d) == Max(0, Target(sid, d) - get_manual_count(d, sid))

rest_class_id == solver_settings.onCallRestClassId

rest_before == Max(0, solver_settings.onCallRestDaysBefore)

rest_after == Max(0, solver_settings.onCallRestDaysAfter)

rest_shift_row_ids == { sr.sid : sr \in { r \in shift_rows : r.row.id = rest_class_id } }

RestActive ==
    /\ solver_settings.onCallRestEnabled
    /\ rest_shift_row_ids # {}
    /\ (rest_before > 0 \/ rest_after > 0)

(* the dictionaries solve_week has built when it reaches the constraints *)
WeekLocals ==
    [shift_intervals          |-> [sid \in shift_row_ids |-> _build_shift_intervals(sid)],
     manual_assignments       |-> manual_assignments,
     var_map                  |-> var_map,
     pref_weight              |-> PrefWeights,
     order_weight_by_shift_id |-> [sid \in shift_row_ids |-> order_weight(sid)],
     already                  |-> [inst \in Instances |-> get_manual_count(inst[2], inst[1])],
     missing                  |-> [inst \in Instances |-> Missing(inst[1], inst[2])],
     rest_shift_row_ids       |-> rest_shift_row_ids,
     rest_active              |-> RestActive]

----------------------------------------------------------------------------
(* solve_week: constraints over a set x of variables set to 1 *)

ManualOf(cid, d) ==
    { m \in locals.manual_assignments : m.clinicianId = cid /\ m.dateISO = d }

AbsInterval(d, sid) ==
    LET iv == locals.shift_intervals[sid]
    IN  [start |-> iv.start + day_index_by_iso(d) * 24 * 60,
         end   |-> iv.end + day_index_by_iso(d) * 24 * 60,
         loc   |-> iv.loc]

overlaps(a, b) == ~(a.end <= b.start \/ b.end <= a.start)

LocationClash(d1, a, d2, b) ==
    /\ solver_settings.enforceSameLocationPerDay
    /\ d1 = d2
    /\ a.loc # ""
    /\ b.loc # ""
    /\ a.loc # b.loc

(* the cap without the manual count of the day *)
PerDayCap_IgnoringManual(x) ==
    solver_settings.allowMultipleShiftsPerDay \/
    \A c \in state.clinicians : \A d \in target_day_isos :
        Cardinality({ v \in x : v[1] = c.id /\ v[2] = d }) <= 1

(* "At most once per day if disabled" *)
PerDayCap(x) ==
    solver_settings.allowMultipleShiftsPerDay \/
    \A c \in state.clinicians : \A d \in target_day_isos :
        LET chosen == { v \in x : v[1] = c.id /\ v[2] = d }
        IN  IF Cardinality(ManualOf(c.id, d)) >= 1
            THEN chosen = {}
            ELSE Cardinality(chosen) <= 1

(* pairwise constraints between two variables of one clinician *)
VarPairs(x) ==
    \A v \in x : \A w \in x :
        (v # w /\ v[1] = w[1]) =>
            LET a == AbsInterval(v[2], v[3])
                b == AbsInterval(w[2], w[3])
            IN  /\ ~overlaps(a, b)
                /\ ~LocationClash(v[2], a, w[2], b)

(* variant: a variable is checked against manual assignments for overlap only *)
ManualPairs_OverlapOnly(x) ==
    \A v \in x : \A m \in locals.manual_assignments :
        (m.clinicianId = v[1]) =>
            ~overlaps(AbsInterval(v[2], v[3]), AbsInterval(m.dateISO, m.rowId))

(* a variable against the manual assignments of its clinician *)
ManualPairs(x) ==
    \A v \in x : \A m \in locals.manual_assignments :
        (m.clinicianId = v[1]) =>
            LET a == AbsInterval(v[2], v[3])
                b == AbsInterval(m.dateISO, m.rowId)
            IN  /\ ~overlaps(a, b)
                /\ ~LocationClash(v[2], a, m.dateISO, b)

vars_here(sid, d) == { v \in locals.var_map : v[2] = d /\ v[3] = sid }

Chosen(x, sid, d) == Cardinality({ v \in x : v[2] = d /\ v[3] = sid })

(* values the model admits for the slack variable of an instance *)
SlackDomain(x, sid, d) ==
    LET missing == locals.missing[<<sid, d>>]
        already == locals.already[<<sid, d>>]
    IN  { sl \in 0..missing : Chosen(x, sid, d) + sl + already >= missing }

(* values the model admits for the covered variable of an instance *)
CoveredDomain(x, sid, d) ==
    IF vars_here(sid, d) = {} THEN {0}
    ELSE { cv \in {0, 1} : Chosen(x, sid, d) + locals.already[<<sid, d>>] >= cv }

(* variant: the coverage block without the only_fill_required caps *)
Coverage_NoCap(x) ==
    \A inst \in Instances :
        locals.missing[inst] = 0 \/
            (SlackDomain(x, inst[1], inst[2]) # {} /\ CoveredDomain(x, inst[1], inst[2]) # {})

Coverage(x) ==
    \A inst \in Instances :
        LET sid == inst[1]
            d   == inst[2]
        IN  IF locals.missing[inst] = 0
            THEN payload.only_fill_required => Chosen(x, sid, d) = 0
            ELSE /\ payload.only_fill_required /\ vars_here(sid, d) # {}
                      => Chosen(x, sid, d) <= locals.missing[inst]
                 /\ SlackDomain(x, sid, d) # {}
                 /\ CoveredDomain(x, sid, d) # {}

RestNeighbours(d) ==
    { d - k : k \in 1..rest_before } \cup { d + k : k \in 1..rest_after }

manual_on_call(cid, d) ==
    \E m \in ManualOf(cid, d) : m.rowId \in locals.rest_shift_row_ids

on_call_vars(cid, d) ==
    { v \in locals.var_map :
        v[1] = cid /\ v[2] = d /\ v[3] \in locals.rest_shift_row_ids }

apply_rest_constraint(x, cid, d, target_date) ==
    IF target_date \notin day_isos \/ target_date \notin target_day_isos THEN TRUE
    ELSE LET vars_target   == { v \in locals.var_map : v[1] = cid /\ v[2] = target_date }
             manual_target == Cardinality(ManualOf(cid, target_date))
             on_call_var   == IF x \cap on_call_vars(cid, d) # {} THEN 1 ELSE 0
         IN  IF manual_on_call(cid, d)
             THEN manual_target > 0 \/ x \cap vars_target = {}
             ELSE IF manual_target > 0
                  THEN on_call_var = 0
                  ELSE Cardinality(x \cap vars_target) <= BIG * (1 - on_call_var)

OnCallRest(x) ==
    locals.rest_active =>
        \A c \in state.clinicians : \A d \in day_isos :
            (manual_on_call(c.id, d) \/ on_call_vars(c.id, d) # {}) =>
                \A t \in RestNeighbours(d) : apply_rest_constraint(x, c.id, d, t)

----------------------------------------------------------------------------
(* solve_week: objective, the engine's answer, notes *)

(* every constraint except coverage binds the variables of one clinician *)
ClinicianRules(x) ==
    /\ PerDayCap(x)
    /\ VarPairs(x)
    /\ ManualPairs(x)
    /\ OnCallRest(x)

FeasibleWeek(x) == ClinicianRules(x) /\ Coverage(x)

ClinicianChoices(cid) ==
    { x \in SUBSET { v \in locals.var_map : v[1] = cid } : ClinicianRules(x) }

RECURSIVE JointChoices(_)
JointChoices(cids) ==
    IF cids = {} THEN {{}}
    ELSE LET cid == CHOOSE c \in cids : TRUE
         IN  { p[1] \cup p[2] : p \in ClinicianChoices(cid) \X JointChoices(cids \ {cid}) }

SolutionsWeek ==
    { x \in JointChoices({ c.id : c \in state.clinicians }) : Coverage(x) }

SlackValue(x, sid, d) ==
    IF locals.missing[<<sid, d>>] = 0 THEN 0
    ELSE CHOOSE sl \in SlackDomain(x, sid, d) :
             \A other \in SlackDomain(x, sid, d) : sl <= other

CoveredValue(x, sid, d) ==
    IF locals.missing[<<sid, d>>] = 0 THEN 0
    ELSE CHOOSE cv \in CoveredDomain(x, sid, d) :
             \A other \in CoveredDomain(x, sid, d) : cv >= other

total_slack(x) ==
    SumOver(Instances,
            [inst \in Instances |->
                SlackValue(x, inst[1], inst[2]) * locals.order_weight_by_shift_id[inst[1]]])

total_coverage(x) ==
    SumOver(Instances,
            [inst \in Instances |->
                CoveredValue(x, inst[1], inst[2]) * locals.order_weight_by_shift_id[inst[1]]])

total_priority(x) == SumOver(x, [v \in x |-> locals.order_weight_by_shift_id[v[3]]])

total_preference(x) ==
    SumOver(x, [v \in x |-> locals.pref_weight[v[1]][v[3][1]]])

ObjectiveWeek(x) ==
    IF payload.only_fill_required
    THEN 0 - total_coverage(x) * 10000 + total_slack(x) * 100 - total_preference(x)
    ELSE 0 - total_coverage(x) * 10000 + total_slack(x) * 100
           - total_priority(x) * 10 - total_preference(x)

(* the solutions of least objective value; scored maps solutions to values *)
Minimisers(scored) ==
    LET solutions == DOMAIN scored
        values    == { scored[x] : x \in solutions }
    IN  IF solutions = {} THEN {}
        ELSE LET best == CHOOSE b \in values : \A other \in values : b <= other
             IN  { x \in solutions : scored[x] = best }

OptimalWeek == Minimisers([x \in SolutionsWeek |-> ObjectiveWeek(x)])

(* rest-day conflicts with manual assignments on the context days *)
boundary_conflicts(x) ==
    LET on_call_assignments ==
            { <<m.clinicianId, m.dateISO>> :
                m \in { a \in locals.manual_assignments :
                          /\ a.dateISO \in target_day_isos
                          /\ a.rowId \in locals.rest_shift_row_ids } }
            \cup { <<v[1], v[2]>> : v \in { w \in x : w[3] \in locals.rest_shift_row_ids } }
    IN  { <<p[1][1], p[1][2], p[2]>> :
            p \in { q \in on_call_assignments \X day_isos :
                      /\ q[2] \in RestNeighbours(q[1][2])
                      /\ q[2] \notin target_day_isos
                      /\ ManualOf(q[1][1], q[2]) # {} } }

NotesWeek(x) ==
    (IF locals.rest_active /\ boundary_conflicts(x) # {} THEN <<NoteBoundary>> ELSE <<>>)
    \o (IF total_slack(x) > 0 THEN <<NoteSlack>> ELSE <<>>)

AssignmentsOf(x) ==
    { [rowId |-> v[3], dateISO |-> v[2], clinicianId |-> v[1]] : v \in x }

----------------------------------------------------------------------------
(* solve_day *)

dateISO == payload.dateISO

vacation_ids == { c.id : c \in { cl \in state.clinicians : is_on_vac(cl.id, dateISO) } }

DayAssignments ==
    { a \in state.assignments :
        /\ a.dateISO = dateISO
        /\ a.rowId \notin ignored_pool_rows
        /\ a.clinicianId \notin vacation_ids }

assigned_ids == { a.clinicianId : a \in DayAssignments }

class_assignments == { a \in DayAssignments : a.rowId \in shift_row_ids }

free_clinicians ==
    { c \in state.clinicians : c.id \notin assigned_ids /\ c.id \notin vacation_ids }

var_map_day ==
    { <<t[1].id, t[2].sid>> :
        t \in { u \in free_clinicians \X shift_rows :
                  u[2].row.id \in u[1].qualifiedClassIds } }

class_need(sid) == Target(sid, dateISO)

AlreadyDay(sid) == Cardinality({ a \in class_assignments : a.rowId = sid })

MissingDay(sid) == Max(0, class_need(sid) - AlreadyDay(sid))

(* the dictionaries solve_day has built when it reaches the constraints *)
DayLocals ==
    [day_var_map              |-> var_map_day,
     free_clinicians          |-> { c.id : c \in free_clinicians },
     pref_weight              |-> PrefWeights,
     class_need               |-> [sid \in shift_row_ids |-> class_need(sid)],
     class_order_weight       |-> [sid \in shift_row_ids |-> order_weight(sid)],
     day_missing              |-> [sid \in shift_row_ids |-> MissingDay(sid)]]

assigned_vars(sid) == { v \in locals.day_var_map : v[2] = sid }

ChosenDay(x, sid) == Cardinality({ v \in x : v[2] = sid })

OnePerClinician(x) ==
    \A cid \in locals.free_clinicians : Cardinality({ v \in x : v[1] = cid }) <= 1

SlackDomainDay(x, sid) ==
    { sl \in 0..locals.day_missing[sid] : ChosenDay(x, sid) + sl >= locals.day_missing[sid] }

CoveredDomainDay(x, sid) ==
    IF assigned_vars(sid) = {} THEN {0}
    ELSE { cv \in {0, 1} : ChosenDay(x, sid) >= cv }

CoverageDay(x) ==
    \A sid \in shift_row_ids :
        IF locals.day_missing[sid] = 0
        THEN payload.only_fill_required => ChosenDay(x, sid) = 0
        ELSE /\ payload.only_fill_required /\ assigned_vars(sid) # {}
                  => ChosenDay(x, sid) <= locals.day_missing[sid]
             /\ SlackDomainDay(x, sid) # {}
             /\ CoveredDomainDay(x, sid) # {}

FeasibleDay(x) == OnePerClinician(x) /\ CoverageDay(x)

SlackValueDay(x, sid) ==
    IF locals.day_missing[sid] = 0 THEN 0
    ELSE CHOOSE sl \in SlackDomainDay(x, sid) :
             \A other \in SlackDomainDay(x, sid) : sl <= other

CoveredValueDay(x, sid) ==
    IF locals.day_missing[sid] = 0 THEN 0
    ELSE CHOOSE cv \in CoveredDomainDay(x, sid) :
             \A other \in CoveredDomainDay(x, sid) : cv >= other

total_slack_day(x) ==
    SumOver(shift_row_ids,
            [sid \in shift_row_ids |->
                SlackValueDay(x, sid) * locals.class_order_weight[sid]])

total_coverage_day(x) ==
    SumOver(shift_row_ids,
            [sid \in shift_row_ids |->
                CoveredValueDay(x, sid) * locals.class_order_weight[sid]])

total_priority_day(x) == SumOver(x, [v \in x |-> locals.class_need[v[2]]])

total_preference_day(x) ==
    SumOver(x, [v \in x |-> locals.pref_weight[v[1]][v[2][1]]])

ObjectiveDay(x) ==
    IF payload.only_fill_required
    THEN 0 - total_coverage_day(x) * 10000 + total_slack_day(x) * 100
           - total_preference_day(x)
    ELSE 0 - total_coverage_day(x) * 10000 + total_slack_day(x) * 100
           - total_priority_day(x) * 10 - total_preference_day(x)

SolutionsDay == { x \in SUBSET locals.day_var_map : FeasibleDay(x) }

OptimalDay == Minimisers([x \in SolutionsDay |-> ObjectiveDay(x)])

NotesDay(x) == IF total_slack_day(x) > 0 THEN <<NoteSlack>> ELSE <<>>

AssignmentsOfDay(x) ==
    { [rowId |-> v[2], dateISO |-> dateISO, clinicianId |-> v[1]] : v \in x }

----------------------------------------------------------------------------
(* State normaliser (backend/state.py).  A row id is the tuple of its     *)
(* parts at the separator "::": a bare id is a 1-tuple, "class::sub" a    *)
(* pair whose second part may be empty.  An override key                  *)
(* "{rowId}__{dateISO}" is the pair <<rowId, date>>, with an empty date   *)
(* written None.                                                          *)

DEFAULT_LOCATION_ID == "loc-default"

DEFAULT_LOCATION_NAME == "Default"

DEFAULT_SUB_SHIFT_START == <<8, 0>>

DEFAULT_SUB_SHIFT_START_MINUTES == 480

DEFAULT_SUB_SHIFT_MINUTES == 480

(* ids for which row_id.startswith("pool-") holds *)
PoolPrefixedIds ==
    {"pool-not-allocated", "pool-manual", "pool-rest-day", "pool-vacation", "pool-ghost"}

RECURSIVE Ascending(_)
Ascending(S) ==
    IF S = {} THEN <<>>
    ELSE LET least == CHOOSE a \in S : \A b \in S : a <= b
         IN  <<least>> \o Ascending(S \ {least})

_build_shift_row_id(class_id, sub_shift_id) == <<class_id, sub_shift_id>>

(* a dict keyed by id keeps the place of the first entry and the value of *)
(* the last one                                                           *)
_ensure_locations(locations) ==
    LET n       == Len(locations)
        first   == { i \in 1..n : /\ locations[i].id # ""
                                  /\ \A j \in 1..(i - 1) : locations[j].id # locations[i].id }
        last(i) == CHOOSE j \in i..n :
                       /\ locations[j].id = locations[i].id
                       /\ \A k \in (j + 1)..n : locations[k].id # locations[i].id
        order   == Ascending(first)
        by_id   == [k \in 1..Len(order) |-> locations[last(order[k])]]
    IN  IF \E k \in 1..Len(by_id) : by_id[k].id = DEFAULT_LOCATION_ID
        THEN by_id
        ELSE Append(by_id, [id |-> DEFAULT_LOCATION_ID, name |-> DEFAULT_LOCATION_NAME])

(* state.py's own parser: "H:MM" or "HH:MM" within the clock's range *)
state_parse_time_to_minutes(value) ==
    IF value = <<>> THEN None
    ELSE IF value[1] < 0 \/ value[1] > 23 \/ value[2] < 0 \/ value[2] > 59 THEN None
    ELSE value[1] * 60 + value[2]

_format_minutes(total_minutes) ==
    LET clamped == total_minutes % (24 * 60)
    IN  <<clamped \div 60, clamped % 60>>

(* f"s{order}" and f"Shift {order}" *)
ShiftIdOfOrder(order) == <<"s1", "s2", "s3">>[order]

ShiftNameOfOrder(order) == <<"Shift", order>>

(* the one element of a one-element set: { e(x) : x \in {v} } computes v  *)
(* once, however often e uses it                                          *)
The(S) == CHOOSE x \in S : TRUE

(* the order a sub-shift gets: its own if free, else the lowest free one *)
next_order(shift, used_orders) ==
    LET given == IF shift.order \in {1, 2, 3} THEN shift.order ELSE None
        free  == {1, 2, 3} \ used_orders
    IN  IF (given = None \/ given \in used_orders) /\ free # {}
        THEN CHOOSE c \in free : \A o \in free : c <= o
        ELSE given

normalized_shift(shift, order) ==
    LET parsed_start == state_parse_time_to_minutes(shift.startTime)
        parsed_end   == state_parse_time_to_minutes(shift.endTime)
        raw_offset   == IF shift.endDayOffset = None THEN 0 ELSE shift.endDayOffset
        start_minutes ==
            IF parsed_start = None
            THEN DEFAULT_SUB_SHIFT_START_MINUTES + DEFAULT_SUB_SHIFT_MINUTES * (order - 1)
            ELSE parsed_start
        duration_minutes ==
            IF shift.hours # None THEN Max(0, shift.hours) * 60
            ELSE DEFAULT_SUB_SHIFT_MINUTES
        end_minutes ==
            IF parsed_end = None THEN start_minutes + duration_minutes ELSE parsed_end
    IN  [id           |-> IF shift.id = "" THEN ShiftIdOfOrder(order) ELSE shift.id,
         name         |-> IF shift.name = <<>> THEN ShiftNameOfOrder(order) ELSE shift.name,
         order        |-> order,
         startTime    |-> _format_minutes(start_minutes),
         endTime      |-> _format_minutes(end_minutes),
         endDayOffset |-> Max(0, Min(3, raw_offset)),
         hours        |-> None]

RECURSIVE normalize_shifts_loop(_, _, _, _)
normalize_shifts_loop(sub_shifts, i, used_orders, normalized) ==
    IF i > Len(sub_shifts) THEN normalized
    ELSE The({ IF order = None \/ order \in used_orders
               THEN normalize_shifts_loop(sub_shifts, i + 1, used_orders, normalized)
               ELSE normalize_shifts_loop(sub_shifts, i + 1, used_orders \cup {order},
                        Append(normalized, normalized_shift(sub_shifts[i], order))) :
               order \in { next_order(sub_shifts[i], used_orders) } })

(* normalized.sort(key=order) and the cut to three *)
sorted_by_order(normalized) ==
    LET orders == Ascending({ normalized[k].order : k \in 1..Len(normalized) })
        at(o)  == CHOOSE k \in 1..Len(normalized) : normalized[k].order = o
    IN  SubSeq([k \in 1..Len(orders) |-> normalized[at(orders[k])]],
               1, Min(3, Len(orders)))

_normalize_sub_shifts(sub_shifts) ==
    IF sub_shifts = <<>>
    THEN << [id           |-> "s1",
             name         |-> ShiftNameOfOrder(1),
             order        |-> 1,
             startTime    |-> DEFAULT_SUB_SHIFT_START,
             endTime      |-> _format_minutes(DEFAULT_SUB_SHIFT_START_MINUTES
                                                + DEFAULT_SUB_SHIFT_MINUTES),
             endDayOffset |-> None,
             hours        |-> None] >>
    ELSE The({ sorted_by_order(normalized) :
               normalized \in { normalize_shifts_loop(sub_shifts, 1, {}, <<>>) } })

(* the loop over the rows: sub-shifts and location of every class row *)
NormalizeRow(row, location_ids, locations_enabled) ==
    IF row.kind # "class" THEN row
    ELSE [row EXCEPT
            !.subShifts  = _normalize_sub_shifts(row.subShifts),
            !.locationId = IF row.locationId = "" \/ row.locationId \notin location_ids
                           THEN DEFAULT_LOCATION_ID
                           ELSE IF ~locations_enabled THEN DEFAULT_LOCATION_ID
                           ELSE row.locationId]

RowChanged(row, location_ids, locations_enabled) ==
    /\ row.kind = "class"
    /\ \/ row.subShifts # _normalize_sub_shifts(row.subShifts)
       \/ row.locationId = "" \/ row.locationId \notin location_ids
       \/ ~locations_enabled /\ row.locationId # DEFAULT_LOCATION_ID

ClassRowsOf(rows) == SelectSeq(rows, LAMBDA row : row.kind = "class")

class_row_ids(rows) == { rows[i].id : i \in { k \in 1..Len(rows) : rows[k].kind = "class" } }

row_ids(rows) == { rows[i].id : i \in 1..Len(rows) }

RowById(rows, id) == rows[CHOOSE i \in 1..Len(rows) : rows[i].id = id /\ rows[i].kind = "class"]

sub_shift_ids_by_class(rows, class_id) ==
    IF class_id \notin class_row_ids(rows) THEN {}
    ELSE LET row == RowById(rows, class_id)
         IN  { row.subShifts[k].id : k \in 1..Len(row.subShifts) }

fallback_shift_id_by_class(rows, class_id) ==
    LET row == RowById(rows, class_id)
    IN  IF row.subShifts = <<>> THEN "s1" ELSE row.subShifts[1].id

valid_shift_row_ids(rows) ==
    UNION { { _build_shift_row_id(c, sub) : sub \in sub_shift_ids_by_class(rows, c) } :
              c \in class_row_ids(rows) }

(* the loop over the assignments: the entries that one assignment leaves *)
NormalizeAssignment(assignment, rows) ==
    LET row_id   == assignment.rowId
        expanded == IF Len(row_id) = 1 /\ row_id[1] \in class_row_ids(rows)
                    THEN _build_shift_row_id(row_id[1],
                                             fallback_shift_id_by_class(rows, row_id[1]))
                    ELSE row_id
    IN  IF Len(expanded) = 2
        THEN IF expanded[1] \in class_row_ids(rows)
             THEN IF expanded[2] = ""
                       \/ expanded[2] \notin sub_shift_ids_by_class(rows, expanded[1])
                  THEN { [assignment EXCEPT !.rowId =
                             _build_shift_row_id(expanded[1],
                                 fallback_shift_id_by_class(rows, expanded[1]))] }
                  ELSE { [assignment EXCEPT !.rowId = expanded] }
             ELSE {}
        ELSE IF expanded[1] \in PoolPrefixedIds \/ expanded[1] \in row_ids(rows)
             THEN { assignment }
             ELSE {}

NormalizeAssignments(assignments, rows) ==
    UNION { NormalizeAssignment(a, rows) : a \in assignments }

AssignmentsChanged(assignments, rows) ==
    \E a \in assignments : NormalizeAssignment(a, rows) # {a}

ZeroSlots == [weekday |-> 0, weekend |-> 0]

(* the rebuilt minSlotsByRowId *)
NormalizeMinSlots(min_slots, rows) ==
    LET classes == class_row_ids(rows)
        popped  == { k \in DOMAIN min_slots : ~(Len(k) = 1 /\ k[1] \in classes) }
        added   == valid_shift_row_ids(rows) \ DOMAIN min_slots
        kept    == { k \in popped \cup added :
                       Len(k) = 2 => /\ k[2] # ""
                                     /\ k[2] \in sub_shift_ids_by_class(rows, k[1]) }
    IN  [k \in kept |->
            IF k \in DOMAIN min_slots THEN min_slots[k]
            ELSE IF k[2] = "s1" /\ <<k[1]>> \in DOMAIN min_slots
                 THEN min_slots[<<k[1]>>]
                 ELSE ZeroSlots]

(* the flags of the rebuild without the one set when a bare class key is popped *)
MinSlotsChanged_PopUnflagged(min_slots, rows) ==
    \/ valid_shift_row_ids(rows) \ DOMAIN min_slots # {}
    \/ \E k \in DOMAIN min_slots :
          /\ Len(k) = 2
          /\ (k[2] = "" \/ k[2] \notin sub_shift_ids_by_class(rows, k[1]))

MinSlotsChanged(min_slots, rows) ==
    \/ \E c \in class_row_ids(rows) : <<c>> \in DOMAIN min_slots
    \/ valid_shift_row_ids(rows) \ DOMAIN min_slots # {}
    \/ \E k \in DOMAIN min_slots :
          /\ Len(k) = 2
          /\ (k[2] = "" \/ k[2] \notin sub_shift_ids_by_class(rows, k[1]))

(* the key an override key is rewritten to, if it is kept; pick[c] is     *)
(* next(iter(class_shift_ids)) of class c, an arbitrary element of a set  *)
OverrideTarget(key, rows, pick) ==
    LET row_id   == key[1]
        date_iso == key[2]
    IN  IF row_id = <<"">> \/ date_iso = None THEN {}
        ELSE IF Len(row_id) = 1 /\ row_id[1] \in class_row_ids(rows)
        THEN { <<_build_shift_row_id(row_id[1], "s1"), date_iso>> }
        ELSE IF Len(row_id) = 2
        THEN LET class_shift_ids == sub_shift_ids_by_class(rows, row_id[1])
             IN  IF row_id[2] = "" \/ class_shift_ids = {} THEN {}
                 ELSE IF row_id[2] \notin class_shift_ids
                 THEN { <<_build_shift_row_id(row_id[1], pick[row_id[1]]), date_iso>> }
                 ELSE { key }
        ELSE { key }

(* a rebuild that stores the value of one of the colliding keys *)
NormalizeOverrides_Overwrite(overrides, rows, pick) ==
    LET next_keys == UNION { OverrideTarget(key, rows, pick) : key \in DOMAIN overrides }
    IN  [next_key \in next_keys |->
            LET sources == { key \in DOMAIN overrides :
                               OverrideTarget(key, rows, pick) = {next_key} }
            IN  overrides[CHOOSE key \in sources :
                              \A other \in sources : overrides[other] <= overrides[key]]]

NormalizeOverrides(overrides, rows, pick) ==
    LET next_keys == UNION { OverrideTarget(key, rows, pick) : key \in DOMAIN overrides }
    IN  [next_key \in next_keys |->
            LET sources == { key \in DOMAIN overrides :
                               OverrideTarget(key, rows, pick) = {next_key} }
            IN  SumOver(sources, [key \in sources |-> overrides[key]])]

OverridesChanged(overrides, rows, pick) ==
    \/ \E key \in DOMAIN overrides :
          /\ key[1] # <<"">>
          /\ key[2] # None
          /\ OverrideTarget(key, rows, pick) # {key}
    \/ overrides # NormalizeOverrides(overrides, rows, pick)

(* SolverSettings().model_dump(); the id None is written "" *)
default_settings ==
    [allowMultipleShiftsPerDay |-> FALSE,
     enforceSameLocationPerDay |-> FALSE,
     onCallRestEnabled         |-> FALSE,
     onCallRestClassId         |-> "",
     onCallRestDaysBefore      |-> 1,
     onCallRestDaysAfter       |-> 1]

(* a value that int() rejects, such as "many" or None *)
NotANumber == 0 - 99

(* a clamp that lets every integer through *)
_clamp_days_Unclamped(value) == IF value = NotANumber THEN 1 ELSE value

_clamp_days(value) == IF value = NotANumber THEN 1 ELSE Max(0, Min(7, value))

NormalizeSettings(raw_settings, rows) ==
    LET merged == [k \in DOMAIN default_settings \cup DOMAIN raw_settings |->
                      IF k \in DOMAIN raw_settings THEN raw_settings[k]
                      ELSE default_settings[k]]
        classes == ClassRowsOf(rows)
    IN  [merged EXCEPT
            !.onCallRestClassId =
                IF merged.onCallRestClassId \in class_row_ids(rows)
                THEN merged.onCallRestClassId
                ELSE IF classes # <<>> THEN classes[1].id ELSE "",
            !.onCallRestDaysBefore = _clamp_days(merged.onCallRestDaysBefore),
            !.onCallRestDaysAfter  = _clamp_days(merged.onCallRestDaysAfter)]

(* SolverRule.model_validate: dayDelta is -1 or 1, thenType a known type *)
RuleIsValid(raw_rule) ==
    /\ raw_rule.dayDelta \in {0 - 1, 1}
    /\ raw_rule.thenType \in {"shiftRow", "off"}

NormalizeRule(raw_rule, rows) ==
    [raw_rule EXCEPT !.enabled =
        /\ raw_rule.enabled
        /\ raw_rule.ifShiftRowId \in valid_shift_row_ids(rows)
        /\ (raw_rule.thenType = "shiftRow"
              => raw_rule.thenShiftRowId \in valid_shift_row_ids(rows))]

NormalizeRules(solver_rules, rows) ==
    LET valid == SelectSeq(solver_rules, RuleIsValid)
    IN  [k \in 1..Len(valid) |-> NormalizeRule(valid[k], rows)]

(* the choices of next(iter(class_shift_ids)), one per class *)
PickChoices(rows) ==
    LET rows_after == [i \in 1..Len(rows) |->
                          IF rows[i].kind = "class"
                          THEN [rows[i] EXCEPT !.subShifts = _normalize_sub_shifts(@)]
                          ELSE rows[i]]
        ids == UNION { sub_shift_ids_by_class(rows_after, c) : c \in class_row_ids(rows) }
    IN  { pick \in [class_row_ids(rows) -> ids] :
            \A c \in class_row_ids(rows) : pick[c] \in sub_shift_ids_by_class(rows_after, c) }

(* the class rows with their sub-shifts and locations normalised *)
normalized_rows(raw, locations) ==
    LET location_ids == { locations[k].id : k \in 1..Len(locations) }
    IN  [i \in 1..Len(raw.rows) |->
            NormalizeRow(raw.rows[i], location_ids, raw.locationsEnabled)]

(* the rest of _normalize_state, once locations and rows are known *)
normalized_with(raw, pick, locations, rows) ==
    LET location_ids == { locations[k].id : k \in 1..Len(locations) }
        settings     == NormalizeSettings(raw.solverSettings, rows)
        rules        == NormalizeRules(raw.solverRules, rows)
        changed ==
            \/ raw.locations # locations
            \/ \E i \in 1..Len(raw.rows) :
                  RowChanged(raw.rows[i], location_ids, raw.locationsEnabled)
            \/ AssignmentsChanged(raw.assignments, rows)
            \/ MinSlotsChanged(raw.minSlotsByRowId, rows)
            \/ OverridesChanged(raw.slotOverridesByKey, rows, pick)
            \/ settings # raw.solverSettings
            \/ \E k \in 1..Len(raw.solverRules) : ~RuleIsValid(raw.solverRules[k])
            \/ rules # raw.solverRules
    IN  [state   |-> [raw EXCEPT
                        !.locations          = locations,
                        !.rows               = rows,
                        !.assignments        = NormalizeAssignments(raw.assignments, rows),
                        !.minSlotsByRowId    = NormalizeMinSlots(raw.minSlotsByRowId, rows),
                        !.slotOverridesByKey =
                            NormalizeOverrides(raw.slotOverridesByKey, rows, pick),
                        !.solverSettings     = settings,
                        !.solverRules        = rules],
         changed |-> changed]

_normalize_state(raw, pick) ==
    The({ The({ normalized_with(raw, pick, locations, rows) :
                rows \in { normalized_rows(raw, locations) } }) :
          locations \in { _ensure_locations(raw.locations) } })

----------------------------------------------------------------------------
(* Input states: normalised AppStates over three row layouts *)

SubShift(id, order, startTime, endTime, endDayOffset) ==
    [id |-> id, name |-> ShiftNameOfOrder(order), order |-> order,
     startTime |-> startTime, endTime |-> endTime, endDayOffset |-> endDayOffset,
     hours |-> None]

ClassRow(id, locationId, subShifts) ==
    [id |-> id, kind |-> "class", locationId |-> locationId, subShifts |-> subShifts]

PoolRow(id) == [id |-> id, kind |-> "pool", locationId |-> "", subShifts |-> <<>>]

(* one section, three consecutive four-hour slots *)
RowsSingleSite ==
    << ClassRow("A", "loc-1",
                << SubShift("s1", 1, <<8, 0>>, <<12, 0>>, 0),
                   SubShift("s2", 2, <<12, 0>>, <<16, 0>>, 0),
                   SubShift("s3", 3, <<16, 0>>, <<20, 0>>, 0) >>),
       PoolRow("pool-rest-day") >>

(* two sections at two locations, overlapping day slots and an overnight slot *)
RowsTwoSites ==
    << ClassRow("A", "loc-1", << SubShift("s1", 1, <<8, 0>>, <<16, 0>>, 0) >>),
       PoolRow("pool-rest-day"),
       ClassRow("B", "loc-2",
                << SubShift("s1", 1, <<12, 0>>, <<20, 0>>, 0),
                   SubShift("s2", 2, <<20, 0>>, <<10, 0>>, 1) >>) >>

(* a three-day slot and a slot ending at midnight *)
RowsLong ==
    << ClassRow("A", "loc-1", << SubShift("s1", 1, <<8, 0>>, <<8, 0>>, 3) >>),
       ClassRow("B", "loc-1", << SubShift("s1", 1, <<16, 0>>, <<0, 0>>, 1) >>),
       PoolRow("pool-rest-day") >>

(* one section with one day slot *)
RowsOneSlot ==
    << ClassRow("A", "loc-1", << SubShift("s1", 1, <<8, 0>>, <<16, 0>>, 0) >>),
       PoolRow("pool-rest-day") >>

(* a day slot and a slot whose end does not lie after its start *)
RowsDegenerate ==
    << ClassRow("A", "loc-1", << SubShift("s1", 1, <<8, 0>>, <<16, 0>>, 0) >>),
       ClassRow("B", "loc-1", << SubShift("s1", 1, <<12, 0>>, <<10, 0>>, 0) >>),
       PoolRow("pool-rest-day") >>

RowLayouts == { RowsSingleSite, RowsTwoSites, RowsLong }

ClassIdsOf(rows) == { rows[i].id : i \in { k \in 1..Len(rows) : rows[k].kind = "class" } }

SlotIdsOf(rows) ==
    { <<rows[p[1]].id, rows[p[1]].subShifts[p[2]].id>> :
        p \in { q \in (1..Len(rows)) \X (1..3) :
                  rows[q[1]].kind = "class" /\ q[2] <= Len(rows[q[1]].subShifts) } }


StartDay == 2

(* days on which the input states hold manual assignments *)
ManualDays == (StartDay - 2) .. (StartDay + 1)

Clinician(id, qualified, preferred, vacations) ==
    [id |-> id, qualifiedClassIds |-> qualified, preferredClassIds |-> preferred,
     vacations |-> vacations]

Vacation(startISO, endISO) == [startISO |-> startISO, endISO |-> endISO]

Assignment(rowId, d, cid) == [rowId |-> rowId, dateISO |-> d, clinicianId |-> cid]

Roster(q1, p1, v1, q2) ==
    { Clinician("c1", q1, p1, v1), Clinician("c2", q2, <<>>, {}) }

DefaultRoster(rows) == Roster(ClassIdsOf(rows), <<>>, {}, {"A"})

LastClassOf(rows) == IF rows = RowsSingleSite THEN "A" ELSE "B"

FirstSlotOf(rows) == <<"A", "s1">>

(* solverSettings as the normaliser leaves them, plus the key            *)
(* preferContinuousShifts that a state may carry                         *)
DefaultSettings ==
    [allowMultipleShiftsPerDay |-> FALSE,
     enforceSameLocationPerDay |-> FALSE,
     preferContinuousShifts    |-> FALSE,
     onCallRestEnabled         |-> FALSE,
     onCallRestClassId         |-> "A",
     onCallRestDaysBefore      |-> 1,
     onCallRestDaysAfter       |-> 1]

RECURSIVE SubsetsUpTo(_, _)
SubsetsUpTo(S, k) ==
    IF k = 0 THEN {{}}
    ELSE LET smaller == SubsetsUpTo(S, k - 1)
         IN  smaller \cup { p[1] \cup {p[2]} : p \in smaller \X S }

(* slot assignments of c1 around the requested range, or a rest-day entry *)
ManualUniverse(rows) ==
    { Assignment(p[1], p[2], "c1") : p \in SlotIdsOf(rows) \X ManualDays }
    \cup { Assignment(<<"pool-rest-day">>, StartDay, "c1") }

UniformDemand(rows, t) ==
    [sid \in SlotIdsOf(rows) |-> [weekday |-> t, weekend |-> t]]

(* targets: the same everywhere, required only at both ends of the day,  *)
(* or required on weekends and holidays only                             *)
DemandChoices(rows) ==
    { UniformDemand(rows, t) : t \in 0..MaxTarget }
    \cup { [sid \in SlotIdsOf(rows) |->
              IF sid \in {<<"A", "s2">>, <<"B", "s1">>}
              THEN [weekday |-> 0, weekend |-> 0]
              ELSE [weekday |-> 1, weekend |-> 1]],
           [sid \in SlotIdsOf(rows) |-> [weekday |-> 0, weekend |-> 1]] }

Location(id) == [id |-> id, name |-> id]

Sites == << Location(DEFAULT_LOCATION_ID), Location("loc-1"), Location("loc-2") >>

MakeState(rows, clinicians, assignments, minSlots, overrides, holidays, settings) ==
    [locations |-> Sites, locationsEnabled |-> TRUE,
     rows |-> rows, clinicians |-> clinicians, assignments |-> assignments,
     minSlotsByRowId |-> minSlots, slotOverridesByKey |-> overrides,
     holidays |-> holidays, solverSettings |-> settings, solverRules |-> <<>>]

WeekPayload(endISO, fill) ==
    [endpoint |-> "week", dateISO |-> StartDay, startISO |-> StartDay,
     endISO |-> endISO, only_fill_required |-> fill]

DayPayload(fill) ==
    [endpoint |-> "day", dateISO |-> StartDay, startISO |-> StartDay,
     endISO |-> None, only_fill_required |-> fill]

OneDay == { WeekPayload(StartDay, f) : f \in BOOLEAN }

TwoDays(rows) ==
    IF rows = RowsSingleSite THEN {}
    ELSE { WeekPayload(StartDay + 1, f) : f \in BOOLEAN }

SingleDay == { DayPayload(f) : f \in BOOLEAN }

NoResponse == [kind |-> "none", assignments |-> {}, notes |-> <<>>]

(* many manual assignments, default roster and demand *)
ManualFamily(rows) ==
    { MakeState(rows, DefaultRoster(rows), t[1], UniformDemand(rows, 1), <<>>, {},
                [DefaultSettings EXCEPT !.allowMultipleShiftsPerDay = t[2],
                                        !.enforceSameLocationPerDay = t[3]]) :
        t \in SubsetsUpTo(ManualUniverse(rows), MaxManual) \X BOOLEAN
              \X (IF rows = RowsTwoSites THEN BOOLEAN ELSE {FALSE}) }
    \X OneDay

(* qualifications and vacations *)
RosterFamily(rows) ==
    { MakeState(rows, Roster(t[1], <<>>, t[2], t[3]), t[4],
                UniformDemand(rows, 1), <<>>, {}, DefaultSettings) :
        t \in { ClassIdsOf(rows), {"A"}, {} }
              \X { {}, {Vacation(StartDay - 1, StartDay)},
                       {Vacation(StartDay + 1, StartDay + 1)} }
              \X { {"A"}, {} }
              \X SubsetsUpTo({ Assignment(FirstSlotOf(rows), StartDay, "c1"),
                               Assignment(FirstSlotOf(rows), StartDay, "c2") }, 1) }
    \X (OneDay \cup TwoDays(rows) \cup SingleDay)

(* targets, holidays, overrides, several slots per day *)
DemandFamily(rows) ==
    { MakeState(rows, Roster(ClassIdsOf(rows), <<LastClassOf(rows)>>, {}, t[1]), t[2],
                t[3], t[4], t[5],
                [DefaultSettings EXCEPT !.allowMultipleShiftsPerDay = TRUE,
                                        !.preferContinuousShifts = TRUE]) :
        t \in { {"A"}, {} }
              \X SubsetsUpTo({ Assignment(FirstSlotOf(rows), StartDay, "c1") }, 1)
              \X DemandChoices(rows)
              \X { <<>>, [k \in {<<FirstSlotOf(rows), StartDay>>} |-> 1],
                         [k \in {<<FirstSlotOf(rows), StartDay>>} |-> 0 - 1] }
              \X { {}, {StartDay} } }
    \X (OneDay \cup SingleDay)

(* on-call rest around the last section *)
RestFamily(rows) ==
    { MakeState(rows, DefaultRoster(rows), t[1], UniformDemand(rows, 1), <<>>, {},
                [DefaultSettings EXCEPT !.allowMultipleShiftsPerDay = t[2],
                                        !.onCallRestEnabled = TRUE,
                                        !.onCallRestClassId = LastClassOf(rows),
                                        !.onCallRestDaysBefore = t[3],
                                        !.onCallRestDaysAfter = t[4]]) :
        t \in SubsetsUpTo(ManualUniverse(rows), 1) \X BOOLEAN
              \X (0..MaxRestDays) \X (0..MaxRestDays) }
    \X ({ WeekPayload(StartDay, FALSE) } \cup
        (IF rows = RowsSingleSite THEN {} ELSE { WeekPayload(StartDay + 1, FALSE) }))

(* requests without endISO: the range is the seven days from startISO on *)
DefaultRangeFamily ==
    { MakeState(RowsOneSlot, Roster({"A"}, <<>>, t[1], {}), t[2],
                UniformDemand(RowsOneSlot, 1), <<>>, {}, DefaultSettings) :
        t \in { {}, {Vacation(StartDay + 5, StartDay + 7)} }
              \X SubsetsUpTo({ Assignment(FirstSlotOf(RowsOneSlot), StartDay - 1, "c1"),
                               Assignment(FirstSlotOf(RowsOneSlot), StartDay + 7, "c1") }, 1) }
    \X { WeekPayload(None, f) : f \in BOOLEAN }

(* the state of a user who has stored none yet (state.py, _default_state) *)
DefaultClassRow(id) ==
    ClassRow(id, DEFAULT_LOCATION_ID,
             << SubShift("s1", 1, DEFAULT_SUB_SHIFT_START,
                         _format_minutes(DEFAULT_SUB_SHIFT_START_MINUTES
                                           + DEFAULT_SUB_SHIFT_MINUTES), 0) >>)

_default_state ==
    [locations        |-> << [id |-> DEFAULT_LOCATION_ID, name |-> DEFAULT_LOCATION_NAME] >>,
     locationsEnabled |-> TRUE,
     rows |-> << DefaultClassRow("mri"), DefaultClassRow("ct"),
                 DefaultClassRow("sonography"), DefaultClassRow("conventional"),
                 DefaultClassRow("on-call"),
                 PoolRow("pool-not-allocated"), PoolRow("pool-manual"),
                 PoolRow("pool-rest-day"), PoolRow("pool-vacation") >>,
     clinicians |->
         { Clinician("sarah-chen", {"mri", "sonography", "conventional"},
                     <<"sonography", "mri">>, {Vacation(0 - 20, 0 - 18)}),
           Clinician("james-wilson", {"mri", "on-call"}, <<"on-call">>, {}),
           Clinician("michael-ross", {"ct", "conventional", "on-call"}, <<"ct">>, {}),
           Clinician("emily-brooks", {"sonography", "conventional"}, <<"conventional">>, {}),
           Clinician("david-kim", {"ct", "sonography"}, <<"ct">>, {}),
           Clinician("ava-patel", {"ct", "mri"}, <<>>, {}),
           Clinician("lena-park", {"conventional"}, <<"conventional">>, {}) },
     assignments |-> {},
     minSlotsByRowId |->
         [sid \in { _build_shift_row_id(c, "s1") :
                      c \in {"mri", "ct", "sonography", "conventional", "on-call"} } |->
             IF sid[1] = "on-call" THEN [weekday |-> 1, weekend |-> 1]
             ELSE [weekday |-> 2, weekend |-> 1]],
     slotOverridesByKey |-> <<>>,
     holidays           |-> {},
     solverSettings     |-> default_settings,
     solverRules        |-> <<>>]

(* the store of a user without a stored state *)
NoBlob == [missing |-> TRUE]

FirstUseFamily == { NoBlob } \X { DayPayload(TRUE), WeekPayload(StartDay, TRUE) }

(* a state stored before slots had ids of their own: the assignment names *)
(* the section, and the solver settings are missing or partial            *)
LegacyFamily ==
    { [MakeState(RowsOneSlot, Roster({"A"}, <<>>, {}, {"A"}),
                 { Assignment(<<"A">>, StartDay, "c1") },
                 UniformDemand(RowsOneSlot, 2), <<>>, {}, settings)
         EXCEPT !.locations = <<>>] :
        settings \in { <<>>, [allowMultipleShiftsPerDay |-> TRUE] } }
    \X { DayPayload(f) : f \in BOOLEAN }

(* a slot without length beside a day slot that spans its start *)
DegenerateFamily ==
    { MakeState(RowsDegenerate, Roster({"A", "B"}, <<>>, {}, t[1]), t[2],
                UniformDemand(RowsDegenerate, 1), <<>>, {},
                [DefaultSettings EXCEPT !.allowMultipleShiftsPerDay = TRUE]) :
        t \in { {}, {"B"} }
              \X SubsetsUpTo({ Assignment(<<"A", "s1">>, StartDay, "c1"),
                               Assignment(<<"B", "s1">>, StartDay, "c2") }, 1) }
    \X OneDay

(* one day slot and the pool rows a stored state carries *)
RowsWithPools ==
    << ClassRow("A", "loc-1", << SubShift("s1", 1, <<8, 0>>, <<16, 0>>, 0) >>),
       PoolRow("pool-not-allocated"),
       PoolRow("pool-rest-day"),
       PoolRow("pool-vacation") >>

(* a clinician who holds a pool entry or a slot on the requested day *)
PoolFamily ==
    { MakeState(RowsWithPools, Roster({"A"}, <<>>, {}, {}), held,
                UniformDemand(RowsWithPools, 1), <<>>, {}, DefaultSettings) :
        held \in SubsetsUpTo({ Assignment(<<"pool-not-allocated">>, StartDay, "c1"),
                            Assignment(<<"pool-vacation">>, StartDay, "c1"),
                            Assignment(<<"pool-rest-day">>, StartDay, "c1"),
                            Assignment(<<"A", "s1">>, StartDay, "c1") }, 1) }
    \X (OneDay \cup SingleDay)

(* a request whose end precedes its start *)
InvalidFamily ==
    { MakeState(RowsSingleSite, DefaultRoster(RowsSingleSite), {},
                UniformDemand(RowsSingleSite, 1), <<>>, {}, DefaultSettings) }
    \X { WeekPayload(StartDay - 1, FALSE) }

Inputs ==
    UNION { ManualFamily(rows) : rows \in {RowsTwoSites, RowsLong} }
    \cup UNION { RosterFamily(rows) : rows \in RowLayouts }
    \cup UNION { DemandFamily(rows) : rows \in {RowsSingleSite, RowsTwoSites} }
    \cup UNION { RestFamily(rows) : rows \in RowLayouts }
    \cup DefaultRangeFamily
    \cup FirstUseFamily
    \cup LegacyFamily
    \cup DegenerateFamily
    \cup PoolFamily
    \cup InvalidFamily

NoLocals == [var_map |-> {}]

(* no state has been loaded yet *)
NoState == [rows |-> <<>>]

Init ==
    /\ \E input \in Inputs : store = input[1] /\ payload = input[2]
    /\ state = NoState
    /\ pc = "start"
    /\ locals = NoLocals
    /\ response = NoResponse

(* _load_state: a user without a stored state gets the default state,     *)
(* which is saved as it is; a stored state is normalised and written back  *)
(* when the normaliser changed it                                          *)
load_state ==
    /\ pc = "start"
    /\ IF store = NoBlob
       THEN state' = _default_state /\ store' = _default_state
       ELSE \E pick \in PickChoices(store.rows) :
               \E loaded \in { _normalize_state(store, pick) } :
                   /\ state' = loaded.state
                   /\ store' = IF loaded.changed THEN loaded.state ELSE store
    /\ pc' = "ready"
    /\ UNCHANGED <<payload, locals, response>>

(* solve_week up to the point where the model is built; the dictionaries *)
(* solve_day would build for startISO from the same state are kept beside  *)
(* it, so that the answers of the two solvers can be compared             *)
build_week ==
    /\ pc = "ready"
    /\ payload.endpoint = "week"
    /\ IF range_end < range_start
       THEN /\ response' = [kind |-> "error", assignments |-> {},
                            notes |-> <<"Invalid endISO">>]
            /\ pc' = "done"
            /\ UNCHANGED locals
       ELSE /\ locals' = WeekLocals @@ DayLocals
            /\ pc' = "built"
            /\ UNCHANGED response
    /\ UNCHANGED <<store, state, payload>>

(* solver.Solve(model) and the construction of the response *)
solve_week ==
    /\ pc = "built"
    /\ payload.endpoint = "week"
    /\ IF OptimalWeek = {}
       THEN response' = [kind |-> "ok", startISO |-> range_start, endISO |-> range_end,
                         assignments |-> {}, notes |-> <<NoteNoSolution>>]
       ELSE \E x \in OptimalWeek :
               response' = [kind |-> "ok", startISO |-> range_start, endISO |-> range_end,
                            assignments |-> AssignmentsOf(x), notes |-> NotesWeek(x)]
    /\ pc' = "done"
    /\ UNCHANGED <<store, state, payload, locals>>

build_day ==
    /\ pc = "ready"
    /\ payload.endpoint = "day"
    /\ locals' = DayLocals
    /\ pc' = "built"
    /\ UNCHANGED <<store, state, payload, response>>

(* a solver that would save what it returns *)
solve_day_Saving ==
    /\ pc = "built"
    /\ payload.endpoint = "day"
    /\ IF OptimalDay = {}
       THEN /\ response' = [kind |-> "ok", dateISO |-> dateISO,
                            assignments |-> {}, notes |-> <<NoteNoSolution>>]
            /\ UNCHANGED store
       ELSE \E x \in OptimalDay :
               /\ response' = [kind |-> "ok", dateISO |-> dateISO,
                               assignments |-> AssignmentsOfDay(x), notes |-> NotesDay(x)]
               /\ store' = [store EXCEPT !.assignments = @ \cup AssignmentsOfDay(x)]
    /\ pc' = "done"
    /\ UNCHANGED <<state, payload, locals>>

solve_day ==
    /\ pc = "built"
    /\ payload.endpoint = "day"
    /\ IF OptimalDay = {}
       THEN response' = [kind |-> "ok", dateISO |-> dateISO,
                         assignments |-> {}, notes |-> <<NoteNoSolution>>]
       ELSE \E x \in OptimalDay :
               response' = [kind |-> "ok", dateISO |-> dateISO,
                            assignments |-> AssignmentsOfDay(x), notes |-> NotesDay(x)]
    /\ pc' = "done"
    /\ UNCHANGED <<store, state, payload, locals>>

Next == load_state \/ build_week \/ solve_week \/ build_day \/ solve_day

Spec == Init /\ [][Next]_vars

----------------------------------------------------------------------------
(* The state routes (state_routes.py): a client reads the state with      *)
(* get_state and posts the state it holds with set_state.  Here store is  *)
(* the persisted blob, payload the state the client holds, state the      *)
(* state last returned, and locals records the last call of               *)
(* _normalize_state: its input, whether that input was itself produced by *)
(* _normalize_state, the flag it reported and the remap choice it made.   *)

MaxPasses == 2

MaxShifts == 4

MaxRawKeys == 2

RawShift(id, order, startTime, endTime, endDayOffset, hours) ==
    [id |-> id, name |-> <<>>, order |-> order, startTime |-> startTime,
     endTime |-> endTime, endDayOffset |-> endDayOffset, hours |-> hours]

(* a normal sub-shift, one with every optional field missing, one whose   *)
(* offset is out of range, a legacy one with hours, one with a bad start  *)
RawShiftChoices ==
    { SubShift("s1", 1, <<8, 0>>, <<16, 0>>, 0),
      RawShift("", 2, <<>>, <<>>, None, None),
      RawShift("late", 2, <<20, 0>>, <<6, 0>>, 5, None),
      RawShift("old", 1, <<9, 0>>, <<>>, None, 4),
      RawShift("odd", 3, <<25, 0>>, <<12, 0>>, 0 - 2, None) }

RECURSIVE SeqsUpTo(_, _)
SeqsUpTo(S, k) ==
    IF k = 0 THEN { <<>> }
    ELSE LET shorter == SeqsUpTo(S, k - 1)
         IN  shorter \cup { Append(p[1], p[2]) : p \in shorter \X S }

(* two sections, the first without a sub-shift named s1 *)
RowsNorm ==
    << ClassRow("A", "loc-1",
                << SubShift("early", 1, <<8, 0>>, <<12, 0>>, 0),
                   SubShift("late", 2, <<12, 0>>, <<16, 0>>, 0) >>),
       ClassRow("B", "loc-2", << SubShift("s1", 1, <<8, 0>>, <<16, 0>>, 0) >>),
       PoolRow("pool-rest-day"),
       PoolRow("pool-vacation") >>

DeprecatedPoolRows == << PoolRow("pool-not-allocated"), PoolRow("pool-manual") >>

BaseState ==
    MakeState(RowsNorm, Roster({"A"}, <<>>, {}, {}), {}, UniformDemand(RowsNorm, 1),
              <<>>, {}, DefaultSettings)

RawShiftFamily ==
    { [BaseState EXCEPT
         !.rows = << ClassRow("A", "loc-1", shifts), PoolRow("pool-rest-day") >>,
         !.minSlotsByRowId = <<>>] :
        shifts \in SeqsUpTo(RawShiftChoices, MaxShifts) }

RawAssignment(id, rowId) ==
    [id |-> id, rowId |-> rowId, dateISO |-> StartDay, clinicianId |-> "c1"]

RawRowIds ==
    << <<"A">>, <<"A", "early">>, <<"A", "gone">>, <<"A", "s1">>, <<"A", "">>,
       <<"B">>, <<"B", "s1">>, <<"Z">>, <<"Z", "s1">>,
       <<"pool-rest-day">>, <<"pool-manual">>, <<"pool-not-allocated">>,
       <<"pool-ghost">> >>

RawAssignmentFamily ==
    { [BaseState EXCEPT !.rows = t[1], !.assignments = t[2]] :
        t \in { RowsNorm, RowsNorm \o DeprecatedPoolRows }
              \X SubsetsUpTo({ RawAssignment(i, RawRowIds[i]) : i \in DOMAIN RawRowIds },
                             MaxRawKeys) }

RawMinSlotsFamily ==
    { [BaseState EXCEPT !.minSlotsByRowId =
          [k \in { RawRowIds[i] : i \in keys } |->
              [weekday |-> CHOOSE i \in keys : RawRowIds[i] = k, weekend |-> 0]]] :
        keys \in SubsetsUpTo(DOMAIN RawRowIds, MaxRawKeys + 1) }
    \cup
    { [BaseState EXCEPT !.minSlotsByRowId =
          [k \in DOMAIN BaseState.minSlotsByRowId \cup {RawRowIds[i]} |->
              IF k \in DOMAIN BaseState.minSlotsByRowId
              THEN BaseState.minSlotsByRowId[k]
              ELSE [weekday |-> i, weekend |-> 0]]] :
        i \in DOMAIN RawRowIds }

(* override keys: a row id with the date, or with the date missing *)
RawOverrideKeys ==
    [i \in 1..(Len(RawRowIds) + 2) |->
        IF i <= Len(RawRowIds) THEN <<RawRowIds[i], StartDay>>
        ELSE IF i = Len(RawRowIds) + 1 THEN << <<"A", "early">>, None >>
        ELSE << <<"">>, StartDay >>]

RawOverridesFamily ==
    { [BaseState EXCEPT !.slotOverridesByKey =
          [k \in { RawOverrideKeys[i] : i \in keys } |->
              CHOOSE i \in keys : RawOverrideKeys[i] = k]] :
        keys \in SubsetsUpTo(DOMAIN RawOverrideKeys, MaxRawKeys + 1) }

RawSettingChoices ==
    { [allowMultipleShiftsPerDay |-> TRUE],
      [onCallRestClassId |-> "B"],
      [onCallRestClassId |-> "Z"],
      [onCallRestDaysBefore |-> 20],
      [onCallRestDaysAfter |-> 0 - 5],
      [onCallRestDaysBefore |-> 3],
      [onCallRestDaysAfter |-> NotANumber],
      [preferContinuousShifts |-> TRUE],
      [showDistributionPool |-> TRUE],
      [workingHoursToleranceHours |-> 50],
      [futureKey |-> TRUE] }

RawSettingsFamily ==
    { [BaseState EXCEPT !.solverSettings = t[1] @@ t[2] @@ t[3]] :
        t \in (RawSettingChoices \cup { <<>> }) \X (RawSettingChoices \cup { <<>> })
              \X { <<>>, DefaultSettings } }

RawRule(id, enabled, ifShiftRowId, dayDelta, thenType, thenShiftRowId) ==
    [id |-> id, name |-> id, enabled |-> enabled, ifShiftRowId |-> ifShiftRowId,
     dayDelta |-> dayDelta, thenType |-> thenType, thenShiftRowId |-> thenShiftRowId]

RawRuleChoices ==
    { RawRule("r1", TRUE, <<"A", "early">>, 1, "shiftRow", <<"B", "s1">>),
      RawRule("r2", TRUE, <<"A", "gone">>, 1, "off", <<>>),
      RawRule("r3", TRUE, <<"A", "late">>, 0 - 1, "shiftRow", <<"Z", "s1">>),
      RawRule("r4", FALSE, <<"A", "late">>, 1, "off", <<>>),
      RawRule("r5", TRUE, <<"A", "early">>, 0, "off", <<>>) }

RawRulesFamily ==
    { [BaseState EXCEPT !.solverRules = rules] : rules \in SeqsUpTo(RawRuleChoices, MaxRawKeys) }

RawLocationsFamily ==
    { [BaseState EXCEPT
         !.locations = t[1], !.locationsEnabled = t[2],
         !.rows = << ClassRow("A", t[3], RowsNorm[1].subShifts) >> \o Tail(RowsNorm)] :
        t \in { <<>>, << Location("loc-1") >>, Sites,
                << Location("loc-1"), [id |-> "loc-1", name |-> "renamed"], Location("") >> }
              \X BOOLEAN
              \X { "", "loc-1", "loc-9" } }

(* a state without any section *)
RawNoClassFamily ==
    { [BaseState EXCEPT !.rows = << PoolRow("pool-rest-day") >>,
                        !.minSlotsByRowId = <<>>,
                        !.solverSettings = settings] :
        settings \in { <<>>, DefaultSettings } }

RawStates ==
    RawNoClassFamily \cup RawShiftFamily \cup RawAssignmentFamily \cup RawMinSlotsFamily \cup RawOverridesFamily
    \cup RawSettingsFamily \cup RawRulesFamily \cup RawLocationsFamily

NoCall ==
    [op |-> "none", input |-> NoState, input_normal |-> FALSE, changed |-> FALSE,
     pick |-> <<>>, passes |-> 0, store_normal |-> FALSE, client_normal |-> FALSE]

InitNorm ==
    /\ \E raw \in RawStates :
          \/ store = raw /\ payload = NoState
          \/ store = NoBlob /\ payload = raw
    /\ state = NoState
    /\ pc = "idle"
    /\ locals = NoCall
    /\ response = NoResponse

(* GET /v1/state: _load_state *)
get_state ==
    /\ pc = "idle"
    /\ locals.passes < MaxPasses
    /\ IF store = NoBlob
       THEN /\ state' = _default_state
            /\ store' = _default_state
            /\ locals' = [NoCall EXCEPT !.op = "default", !.passes = locals.passes + 1]
       ELSE \E pick \in PickChoices(store.rows) :
               \E loaded \in { _normalize_state(store, pick) } :
                   /\ state' = loaded.state
                   /\ store' = IF loaded.changed THEN loaded.state ELSE store
                   /\ locals' = [op |-> "normalize", input |-> store,
                                 input_normal |-> locals.store_normal,
                                 changed |-> loaded.changed, pick |-> pick,
                                 passes |-> locals.passes + 1,
                                 store_normal |-> TRUE, client_normal |-> TRUE]
    /\ payload' = state'
    /\ UNCHANGED <<pc, response>>

(* POST /v1/state: the posted state is normalised, saved and returned *)
set_state ==
    /\ pc = "idle"
    /\ locals.passes < MaxPasses
    /\ payload # NoState
    /\ \E pick \in PickChoices(payload.rows) :
          \E normalized \in { _normalize_state(payload, pick) } :
              /\ state' = normalized.state
              /\ store' = normalized.state
              /\ payload' = normalized.state
              /\ locals' = [op |-> "normalize", input |-> payload,
                            input_normal |-> locals.client_normal,
                            changed |-> normalized.changed, pick |-> pick,
                            passes |-> locals.passes + 1,
                            store_normal |-> TRUE, client_normal |-> TRUE]
    /\ UNCHANGED <<pc, response>>

NextNorm == get_state \/ set_state

SpecNorm == InitNorm /\ [][NextNorm]_vars

----------------------------------------------------------------------------
(* _load_state beside a concurrent set_state of the same user.  The      *)
(* routes are plain functions, which the server runs on worker threads;   *)
(* every SELECT and every INSERT OR REPLACE ... commit of _save_state is  *)
(* one step on a connection of its own.                                   *)
(* store is the row of app_state, payload the state the client posts,     *)
(* state the local variable of _load_state, pc the position of the two    *)
(* requests, locals.row what _load_state read.                            *)

RaceStored == {NoBlob, BaseState} \cup RawLocationsFamily

RacePosted ==
    { [BaseState EXCEPT !.assignments = {RawAssignment(1, <<"A", "early">>)}],
      [BaseState EXCEPT !.holidays = {StartDay}] }

NoRead == [changed |-> FALSE, row |-> NoState, posted |-> NoState,
           committed_between |-> FALSE]

InitRace ==
    /\ store \in RaceStored
    /\ payload \in RacePosted
    /\ state = NoState
    /\ pc = [load |-> "start", set |-> "start"]
    /\ locals = NoRead
    /\ response = NoResponse

(* row = conn.execute("SELECT data FROM app_state WHERE id = ?").fetchone() *)
_load_state_select ==
    /\ pc.load = "start"
    /\ locals' = [locals EXCEPT !.row = store]
    /\ pc' = [pc EXCEPT !.load = "selected"]
    /\ UNCHANGED <<store, state, payload, response>>

(* if not row: state = _default_state(); _save_state(state, user_id) *)
_load_state_default ==
    /\ pc.load = "selected"
    /\ locals.row = NoBlob
    /\ state' = _default_state
    /\ store' = _default_state
    /\ pc' = [pc EXCEPT !.load = "done"]
    /\ UNCHANGED <<payload, locals, response>>

(* state, changed = _normalize_state(state) *)
_load_state_normalize ==
    /\ pc.load = "selected"
    /\ locals.row # NoBlob
    /\ \E pick \in PickChoices(locals.row.rows) :
          \E loaded \in { _normalize_state(locals.row, pick) } :
              /\ state' = loaded.state
              /\ locals' = [locals EXCEPT !.changed = loaded.changed]
    /\ pc' = [pc EXCEPT !.load = "normalized"]
    /\ UNCHANGED <<store, payload, response>>

(* if changed: _save_state(state, user_id) *)
_load_state_save ==
    /\ pc.load = "normalized"
    /\ locals.changed
    /\ store' = state
    /\ pc' = [pc EXCEPT !.load = "done"]
    /\ UNCHANGED <<state, payload, locals, response>>

(* return state, nothing to save *)
_load_state_return ==
    /\ pc.load = "normalized"
    /\ ~locals.changed
    /\ pc' = [pc EXCEPT !.load = "done"]
    /\ UNCHANGED <<store, state, payload, locals, response>>

(* POST /v1/state of the other request: normalise, _save_state, return *)
set_state_commit ==
    /\ pc.set = "start"
    /\ \E pick \in PickChoices(payload.rows) :
          \E normalized \in { _normalize_state(payload, pick) } :
              /\ store' = normalized.state
              /\ locals' = [locals EXCEPT
                               !.posted = normalized.state,
                               !.committed_between =
                                   pc.load \in {"selected", "normalized"}]
    /\ pc' = [pc EXCEPT !.set = "done"]
    /\ UNCHANGED <<state, payload, response>>

NextRace ==
    \/ _load_state_select
    \/ _load_state_default
    \/ _load_state_normalize
    \/ _load_state_save
    \/ _load_state_return
    \/ set_state_commit

SpecRace == InitRace /\ [][NextRace]_vars

----------------------------------------------------------------------------
(* The calendar feed routes of one user (ical_routes.py).  store is the   *)
(* user's row of app_state, locals the tables ical_publications (feed: 0  *)
(* when the user has no row) and ical_clinician_publications (clinician:  *)
(* pairs <<clinician id, token>>), pending the writes of the request's    *)
(* open transaction, pc the position of the request, payload the request, *)
(* response its answer.  secrets.token_urlsafe(32) is taken to return a   *)
(* token never returned before (next_token), so _token_exists is false    *)
(* and no INSERT meets a used token.                                      *)

MaxTokens == 5

NoToken == 0

(* a section posted without sub-shifts, and a roster of one *)
IcalPosted ==
    { [BaseState EXCEPT
         !.rows = << ClassRow("A", "loc-1", <<>>), PoolRow("pool-rest-day") >>,
         !.minSlotsByRowId = <<>>],
      [BaseState EXCEPT !.clinicians = { Clinician("c1", {"A"}, <<>>, {}) }] }

NoTables ==
    [feed |-> NoToken, clinician |-> {},
     pending |-> [feed |-> NoToken, clinician |-> {}],
     next_token |-> 1, issued |-> {}, before |-> {}, before_feed |-> NoToken]

NoRequest == [op |-> "none", token |-> NoToken]

NoAnswer == [kind |-> "none", token |-> NoToken]

InitIcal ==
    /\ store \in {NoBlob, BaseState}
    /\ state = NoState
    /\ payload = NoRequest
    /\ pc = "idle"
    /\ locals = NoTables
    /\ response = NoAnswer

(* the tokens download_ical finds in one of the two tables *)
CurrentTokens(tables) ==
    (IF tables.feed = NoToken THEN {} ELSE {tables.feed})
    \cup { p[2] : p \in tables.clinician }

(* _ensure_clinician_publications: a new token for every clinician of the *)
(* state who has none                                                      *)
RECURSIVE _ensure_clinician_publications(_, _, _)
_ensure_clinician_publications(existing, clinician_ids, token) ==
    IF clinician_ids = {} THEN existing
    ELSE LET id == The(clinician_ids)
         IN  IF \E p \in existing : p[1] = id
             THEN _ensure_clinician_publications(existing, clinician_ids \ {id}, token)
             ELSE _ensure_clinician_publications(existing \cup {<<id, token>>},
                                                 clinician_ids \ {id}, token + 1)

(* POST /v1/ical/publish up to the first write: UPDATE updated_at of the  *)
(* existing row, or INSERT of a row with a new token                      *)
publish_ical_begin ==
    /\ pc = "idle"
    /\ locals.next_token < MaxTokens
    /\ payload' = [op |-> "publish", token |-> NoToken]
    /\ IF locals.feed # NoToken
       THEN locals' = [locals EXCEPT
                         !.pending = [feed |-> locals.feed, clinician |-> locals.clinician],
                         !.before = CurrentTokens(locals),
                         !.before_feed = locals.feed]
       ELSE locals' = [locals EXCEPT
                         !.pending = [feed |-> locals.next_token,
                                      clinician |-> locals.clinician],
                         !.next_token = locals.next_token + 1,
                         !.before = CurrentTokens(locals),
                         !.before_feed = NoToken]
    /\ pc' = "txn"
    /\ response' = NoAnswer
    /\ UNCHANGED <<store, state>>

(* POST /v1/ical/publish/rotate without a publication: 404 *)
rotate_ical_missing ==
    /\ pc = "idle"
    /\ locals.feed = NoToken
    /\ payload' = [op |-> "rotate", token |-> NoToken]
    /\ locals' = [locals EXCEPT !.before = CurrentTokens(locals),
                                !.before_feed = NoToken]
    /\ response' = [kind |-> "not_found", token |-> NoToken]
    /\ UNCHANGED <<store, state, pc>>

(* rotate up to its writes: UPDATE token, DELETE the clinician rows *)
rotate_ical_begin ==
    /\ pc = "idle"
    /\ locals.feed # NoToken
    /\ locals.next_token < MaxTokens
    /\ payload' = [op |-> "rotate", token |-> NoToken]
    /\ locals' = [locals EXCEPT
                     !.pending = [feed |-> locals.next_token, clinician |-> {}],
                     !.next_token = locals.next_token + 1,
                     !.before = CurrentTokens(locals),
                     !.before_feed = locals.feed]
    /\ pc' = "txn"
    /\ response' = NoAnswer
    /\ UNCHANGED <<store, state>>

(* the nested _load_state when the stored state needs no write *)
nested_load_state ==
    /\ pc = "txn"
    /\ store # NoBlob
    /\ \E pick \in PickChoices(store.rows) :
          \E loaded \in { _normalize_state(store, pick) } :
              /\ ~loaded.changed
              /\ state' = loaded.state
    /\ pc' = "loaded"
    /\ UNCHANGED <<store, payload, locals, response>>

(* the nested _load_state when it has to save: _save_state opens its own  *)
(* connection, its INSERT OR REPLACE waits for the write lock that the    *)
(* request's connection holds, and after the busy timeout raises          *)
(* sqlite3.OperationalError, which no handler of the route catches; the   *)
(* request's transaction is never committed.                              *)
nested_load_state_locked ==
    /\ pc = "txn"
    /\ \/ store = NoBlob
       \/ /\ store # NoBlob
          /\ \E pick \in PickChoices(store.rows) :
                \E loaded \in { _normalize_state(store, pick) } : loaded.changed
    /\ locals' = [locals EXCEPT !.pending = [feed |-> NoToken, clinician |-> {}]]
    /\ response' = [kind |-> "error", token |-> NoToken]
    /\ pc' = "idle"
    /\ UNCHANGED <<store, state, payload>>

(* _ensure_clinician_publications, conn.commit(), _build_publish_status *)
ical_commit ==
    /\ pc = "loaded"
    /\ \E clinician_rows \in
            { _ensure_clinician_publications(locals.pending.clinician,
                  { c.id : c \in state.clinicians }, locals.next_token) } :
          /\ locals' = [locals EXCEPT
                           !.feed = locals.pending.feed,
                           !.clinician = clinician_rows,
                           !.pending = [feed |-> NoToken, clinician |-> {}],
                           !.next_token = locals.next_token
                               + Cardinality(clinician_rows \ locals.pending.clinician),
                           !.issued = locals.issued \cup {locals.pending.feed}
                               \cup { p[2] : p \in clinician_rows }]
          /\ response' = [kind |-> "ok", token |-> locals.pending.feed]
    /\ pc' = "idle"
    /\ UNCHANGED <<store, state, payload>>

(* DELETE /v1/ical/publish *)
unpublish_ical ==
    /\ pc = "idle"
    /\ payload' = [op |-> "unpublish", token |-> NoToken]
    /\ locals' = [locals EXCEPT !.feed = NoToken, !.clinician = {},
                                !.before = CurrentTokens(locals),
                                !.before_feed = locals.feed]
    /\ response' = [kind |-> "no_content", token |-> NoToken]
    /\ UNCHANGED <<store, state, pc>>

(* GET /v1/ical/{token}.ics with a token issued before or never issued *)
download_ical ==
    /\ pc = "idle"
    /\ \E token \in locals.issued \cup {locals.next_token} :
          /\ payload' = [op |-> "download", token |-> token]
          /\ IF token \in CurrentTokens(locals)
             THEN /\ response' = [kind |-> "ok", token |-> token]
                  /\ store' = IF store = NoBlob THEN _default_state ELSE store
             ELSE /\ response' = [kind |-> "not_found", token |-> token]
                  /\ store' = store
    /\ UNCHANGED <<state, pc, locals>>

(* GET /v1/state between two calendar requests *)
get_state_between ==
    /\ pc = "idle"
    /\ IF store = NoBlob
       THEN store' = _default_state
       ELSE \E pick \in PickChoices(store.rows) :
               \E loaded \in { _normalize_state(store, pick) } :
                   /\ loaded.changed
                   /\ store' = loaded.state
    /\ UNCHANGED <<state, payload, pc, locals, response>>

(* POST /v1/state between two calendar requests *)
set_state_between ==
    /\ pc = "idle"
    /\ \E posted \in IcalPosted :
          \E pick \in PickChoices(posted.rows) :
              \E normalized \in { _normalize_state(posted, pick) } :
                  store' = normalized.state
    /\ UNCHANGED <<state, payload, pc, locals, response>>

NextIcal ==
    \/ publish_ical_begin
    \/ rotate_ical_missing
    \/ rotate_ical_begin
    \/ nested_load_state
    \/ nested_load_state_locked
    \/ ical_commit
    \/ unpublish_ical
    \/ download_ical
    \/ get_state_between
    \/ set_state_between

SpecIcal == InitIcal /\ [][NextIcal]_vars

----------------------------------------------------------------------------
(* Vocabulary of the properties, stated on the request, the loaded state  *)
(* and the response only                                                  *)

Answered == pc = "done" /\ response.kind = "ok"

AnsweredWeek == Answered /\ payload.endpoint = "week"

Returned == response.assignments

TargetDates ==
    IF payload.endpoint = "day" THEN {payload.dateISO}
    ELSE payload.startISO ..
         (IF payload.endISO = None THEN payload.startISO + 6 ELSE payload.endISO)

ClinicianById(cid) == CHOOSE c \in state.clinicians : c.id = cid

OnVacation(cid, d) ==
    \E c \in state.clinicians :
        c.id = cid /\ \E v \in c.vacations : v.startISO <= d /\ d <= v.endISO

SlotIds == SlotIdsOf(state.rows)

SlotShift(sid) ==
    LET i == CHOOSE k \in 1..Len(state.rows) : state.rows[k].id = sid[1]
        j == CHOOSE k \in 1..Len(state.rows[i].subShifts) :
                 state.rows[i].subShifts[k].id = sid[2]
    IN  state.rows[i].subShifts[j]

SlotLocation(sid) ==
    LET i == CHOOSE k \in 1..Len(state.rows) : state.rows[k].id = sid[1]
    IN  state.rows[i].locationId

(* the interval of a slot on a date, in minutes since day 0 *)
MinuteInterval(d, sid) ==
    LET sh    == SlotShift(sid)
        start == d * 1440 + sh.startTime[1] * 60 + sh.startTime[2]
        end   == d * 1440 + sh.endTime[1] * 60 + sh.endTime[2] + sh.endDayOffset * 1440
    IN  [start |-> start, end |-> IF end <= start THEN start ELSE end]

IntervalOf(a) == MinuteInterval(a.dateISO, a.rowId)

IntervalsOverlap(a, b) ==
    IntervalOf(a).end > IntervalOf(b).start /\ IntervalOf(b).end > IntervalOf(a).start

(* manual slot assignments of the state, on any date *)
ManualSlots == { a \in state.assignments : a.rowId \in SlotIds }

(* those that stand: a vacation day voids the manual assignments on it *)
StandingManual == { a \in ManualSlots : ~OnVacation(a.clinicianId, a.dateISO) }

ReturnedOn(sid, d) == { a \in Returned : a.rowId = sid /\ a.dateISO = d }

DayType(d) == IF (d + 2) % 7 >= 5 \/ d \in state.holidays THEN "weekend" ELSE "weekday"

InstanceTarget(sid, d) ==
    LET base == IF sid \in DOMAIN state.minSlotsByRowId
                THEN (IF DayType(d) = "weekend"
                      THEN state.minSlotsByRowId[sid].weekend
                      ELSE state.minSlotsByRowId[sid].weekday)
                ELSE 0
        extra == IF <<sid, d>> \in DOMAIN state.slotOverridesByKey
                 THEN state.slotOverridesByKey[<<sid, d>>] ELSE 0
    IN  IF base + extra > 0 THEN base + extra ELSE 0

----------------------------------------------------------------------------
(* C1: in a solve_range response, an assignment returned for a clinician  *)
(* overlaps, in absolute minutes, neither another returned assignment of  *)
(* that clinician nor a standing manual assignment of that clinician.     *)
(* This is the part of "returned and manual intervals are pairwise        *)
(* non-overlapping" that the solver decides.                              *)
C1_NoOverlap ==
    AnsweredWeek =>
        \A a \in Returned : \A b \in Returned \cup StandingManual :
            (b # a /\ b.clinicianId = a.clinicianId) => ~IntervalsOverlap(a, b)

(* C2: every assignment returned by solve_day or solve_range places the   *)
(* clinician in a slot whose parent class is among the clinician's        *)
(* qualifiedClassIds.                                                     *)
C2_Qualified ==
    Answered =>
        \A a \in Returned :
            a.rowId[1] \in ClinicianById(a.clinicianId).qualifiedClassIds

(* a response that assigns a clinician who lacks a qualification for      *)
(* another section of the layout                                          *)
C2_Witness ==
    /\ Answered
    /\ \E a \in Returned :
          ClassIdsOf(state.rows) \ ClinicianById(a.clinicianId).qualifiedClassIds # {}

(* C3: no returned assignment lies on a date inside a vacation range of   *)
(* its clinician, both end dates included, also when the state holds a    *)
(* manual assignment of the clinician on that date.                       *)
C3_NoVacation ==
    Answered =>
        \A a \in Returned : ~OnVacation(a.clinicianId, a.dateISO)

(* a clinician on vacation on a requested date, the last day of the       *)
(* vacation, holding a manual assignment there; somebody else is assigned *)
C3_Witness ==
    /\ Answered
    /\ Returned # {}
    /\ \E m \in ManualSlots :
          /\ m.dateISO \in TargetDates
          /\ m.rowId[1] \in ClinicianById(m.clinicianId).qualifiedClassIds
          /\ \E v \in ClinicianById(m.clinicianId).vacations : v.endISO = m.dateISO

ClinicianDay(cid, d) ==
    { a \in Returned \cup StandingManual : a.clinicianId = cid /\ a.dateISO = d }

(* the union of the intervals is one block: every interval that does not *)
(* reach the latest end is continued by another one                      *)
Contiguous(S) ==
    \A a \in S :
        \/ \A b \in S : IntervalOf(b).end <= IntervalOf(a).end
        \/ \E b \in S : /\ IntervalOf(b).start <= IntervalOf(a).end
                        /\ IntervalOf(b).end > IntervalOf(a).end

(* C4: with preferContinuousShifts set, in a solve_range response the     *)
(* assignments of a clinician on a target date, returned and manual,      *)
(* form one contiguous block of time.                                     *)
C4_Continuity ==
    (AnsweredWeek /\ state.solverSettings.preferContinuousShifts) =>
        \A c \in state.clinicians : \A d \in TargetDates :
            Contiguous(ClinicianDay(c.id, d))

SameLocation(a, b) ==
    \/ SlotLocation(a.rowId) = SlotLocation(b.rowId)
    \/ SlotLocation(a.rowId) = ""
    \/ SlotLocation(b.rowId) = ""

(* C5 as stated: with enforceSameLocationPerDay set, all assignments of   *)
(* a clinician on one target date, returned and manual, share one         *)
(* location id unless one of the two has none.                            *)
C5_SameLocationAll ==
    (AnsweredWeek /\ state.solverSettings.enforceSameLocationPerDay) =>
        \A c \in state.clinicians : \A d \in TargetDates :
            \A a \in ClinicianDay(c.id, d) : \A b \in ClinicianDay(c.id, d) :
                SameLocation(a, b)

(* C5 amended: with enforceSameLocationPerDay set, every returned         *)
(* assignment shares its location id with every other assignment of the  *)
(* same clinician on the same date, returned or manual, unless one of the *)
(* two has none; two manual assignments may differ.                       *)
C5_SameLocationReturned ==
    (AnsweredWeek /\ state.solverSettings.enforceSameLocationPerDay) =>
        \A a \in Returned : \A b \in ClinicianDay(a.clinicianId, a.dateISO) :
            SameLocation(a, b)

(* a clinician with a manual assignment receives a further slot on the    *)
(* same date while the layout has a slot at another location              *)
C5_Witness ==
    /\ AnsweredWeek
    /\ state.solverSettings.enforceSameLocationPerDay
    /\ \E a \in Returned : \E m \in StandingManual :
          /\ m.clinicianId = a.clinicianId
          /\ m.dateISO = a.dateISO
          /\ \E sid \in SlotIds : SlotLocation(sid) # SlotLocation(m.rowId)

StandingOn(sid, d) == { m \in StandingManual : m.rowId = sid /\ m.dateISO = d }

Shortfall(sid, d) ==
    InstanceTarget(sid, d) > Cardinality(StandingOn(sid, d)) + Cardinality(ReturnedOn(sid, d))

AllCovered == \A sid \in SlotIds : \A d \in TargetDates : ~Shortfall(sid, d)

Eligible ==
    { Assignment(t[3], t[2], t[1].id) :
        t \in { u \in state.clinicians \X TargetDates \X SlotIds :
                  /\ u[3][1] \in u[1].qualifiedClassIds
                  /\ ~OnVacation(u[1].id, u[2]) } }

(* a plan that respects qualification, vacations, non-overlap and, when   *)
(* enabled, same location, and brings every instance up to its target     *)
CoveringPlan(P) ==
    /\ P \cap StandingManual = {}
    /\ \A a \in P : \A b \in P \cup StandingManual :
          (b # a /\ b.clinicianId = a.clinicianId) =>
              /\ ~IntervalsOverlap(a, b)
              /\ (state.solverSettings.enforceSameLocationPerDay /\ a.dateISO = b.dateISO)
                    => SameLocation(a, b)
    /\ \A sid \in SlotIds : \A d \in TargetDates :
          Cardinality(StandingOn(sid, d))
            + Cardinality({ a \in P : a.rowId = sid /\ a.dateISO = d })
            >= InstanceTarget(sid, d)

Allowance(sid, d, manualCount) ==
    IF InstanceTarget(sid, d) > manualCount
    THEN InstanceTarget(sid, d) - manualCount ELSE 0

(* C7 as stated: with only_fill_required, an instance receives at most    *)
(* max(0, target - manualCount) returned assignments, manualCount being   *)
(* the number of manual assignments on the instance.                      *)
C7_CapAllManual ==
    (Answered /\ payload.only_fill_required) =>
        \A sid \in SlotIds : \A d \in TargetDates :
            Cardinality(ReturnedOn(sid, d))
              <= Allowance(sid, d,
                    Cardinality({ m \in ManualSlots : m.rowId = sid /\ m.dateISO = d }))

(* C7 amended: with only_fill_required, an instance receives at most      *)
(* max(0, target - manualCount) returned assignments, manualCount being   *)
(* the number of manual assignments on the instance of clinicians who are *)
(* not on vacation on that date.                                          *)
C7_CapStandingManual ==
    (Answered /\ payload.only_fill_required) =>
        \A sid \in SlotIds : \A d \in TargetDates :
            Cardinality(ReturnedOn(sid, d))
              <= Allowance(sid, d, Cardinality(StandingOn(sid, d)))

(* an instance whose positive target is met by manual assignments gets    *)
(* nothing although a qualified clinician without any assignment is there *)
C7_Witness ==
    /\ Answered
    /\ payload.only_fill_required
    /\ \E sid \in SlotIds : \E d \in TargetDates :
          /\ InstanceTarget(sid, d) >= 1
          /\ Cardinality(StandingOn(sid, d)) >= InstanceTarget(sid, d)
          /\ ReturnedOn(sid, d) = {}
          /\ \E c \in state.clinicians :
                /\ sid[1] \in c.qualifiedClassIds
                /\ ~OnVacation(c.id, d)
                /\ \A a \in state.assignments : a.clinicianId # c.id

HasNote(note) == \E i \in 1..Len(response.notes) : response.notes[i] = note

(* C8: a feasible solve_range response carries the note "Could not fill   *)
(* all required slots." exactly when some slot-instance of the range ends *)
(* with fewer assignments, manual plus returned, than its target.         *)
C8_SlackNote ==
    (AnsweredWeek /\ ~HasNote(NoteNoSolution)) =>
        (HasNote(NoteSlack) <=> \E sid \in SlotIds : \E d \in TargetDates : Shortfall(sid, d))

CanTake(c, sid, d) ==
    /\ sid[1] \in c.qualifiedClassIds
    /\ ~OnVacation(c.id, d)
    /\ \A m \in StandingOn(sid, d) : m.clinicianId # c.id

(* C9: unmet demand never fails a solve: the response is never the empty  *)
(* "No solution" one, and a slot-instance that still needs somebody and   *)
(* that no clinician can take gets no assignment and the note "Could not  *)
(* fill all required slots.".                                             *)
C9_UnmetDemand ==
    Answered =>
        /\ ~HasNote(NoteNoSolution)
        /\ \A sid \in SlotIds : \A d \in TargetDates :
              ( /\ InstanceTarget(sid, d) > Cardinality(StandingOn(sid, d))
                /\ \A c \in state.clinicians : ~CanTake(c, sid, d) )
              => (ReturnedOn(sid, d) = {} /\ HasNote(NoteSlack))

RestWindow(d) ==
    { d - k : k \in 1..state.solverSettings.onCallRestDaysBefore }
    \cup { d + k : k \in 1..state.solverSettings.onCallRestDaysAfter }

IsRestClass(a) == a.rowId[1] = state.solverSettings.onCallRestClassId

(* C10: with on-call rest enabled and a window that is not empty, a       *)
(* clinician who holds a rest-class assignment on a date D, manual or     *)
(* returned, is given no slot on a target date of D's rest window; where  *)
(* that target date already carries a manual assignment of the clinician, *)
(* the solver does not give the clinician the rest-class slot on D.       *)
C10_OnCallRest ==
    ( /\ AnsweredWeek
      /\ state.solverSettings.onCallRestEnabled
      /\ state.solverSettings.onCallRestClassId \in ClassIdsOf(state.rows)
      /\ RestWindow(0) # {} )
    => \A a \in { r \in Returned \cup StandingManual : IsRestClass(r) } :
          \A t \in RestWindow(a.dateISO) \cap TargetDates :
              IF \E m \in StandingManual : m.clinicianId = a.clinicianId /\ m.dateISO = t
              THEN a \notin Returned
              ELSE \A r \in Returned : ~(r.clinicianId = a.clinicianId /\ r.dateISO = t)

(* C11: with on-call rest enabled, a solve_range response carries the     *)
(* rest-day boundary note exactly when some clinician holds a rest-class  *)
(* assignment, manual or returned, on a target date D and a manual        *)
(* assignment on a date of D's rest window that lies outside the target   *)
(* range.                                                                 *)
C11_BoundaryNote ==
    ( /\ AnsweredWeek
      /\ state.solverSettings.onCallRestEnabled
      /\ ~HasNote(NoteNoSolution) )
    => ( HasNote(NoteBoundary) <=>
           \E a \in { r \in Returned \cup StandingManual :
                          IsRestClass(r) /\ r.dateISO \in TargetDates } :
               \E m \in StandingManual :
                   /\ m.clinicianId = a.clinicianId
                   /\ m.dateISO \in RestWindow(a.dateISO) \ TargetDates )

(* C12: solve_range solves exactly the dates start..end, end being start  *)
(* plus six days when endISO is omitted: a request with end < start is    *)
(* rejected without any assignment, every other response echoes start and *)
(* end and every returned assignment is dated within [start, end], never  *)
(* on a context day.                                                      *)
C12_RangeDates ==
    (pc = "done" /\ payload.endpoint = "week") =>
        LET start == payload.startISO
            end   == IF payload.endISO = None THEN start + 6 ELSE payload.endISO
        IN  IF end < start
            THEN response.kind = "error" /\ response.assignments = {}
            ELSE /\ response.kind = "ok"
                 /\ response.startISO = start
                 /\ response.endISO = end
                 /\ \A a \in Returned : start <= a.dateISO /\ a.dateISO <= end

(* a request without endISO answered with an assignment on the seventh    *)
(* day while the state holds a manual assignment on a context day         *)
C12_Witness ==
    /\ AnsweredWeek
    /\ payload.endISO = None
    /\ \E a \in Returned : a.dateISO = payload.startISO + 6
    /\ \E m \in StandingManual :
          m.dateISO = payload.startISO - 1 \/ m.dateISO = payload.startISO + 7

WeekAnswers ==
    IF OptimalWeek = {} THEN { [assignments |-> {}, notes |-> <<NoteNoSolution>>] }
    ELSE { [assignments |-> AssignmentsOf(x), notes |-> NotesWeek(x)] : x \in OptimalWeek }

DayAnswers ==
    IF OptimalDay = {} THEN { [assignments |-> {}, notes |-> <<NoteNoSolution>>] }
    ELSE { [assignments |-> AssignmentsOfDay(x), notes |-> NotesDay(x)] : x \in OptimalDay }

(* C13: the range solver generalises the day solver: for every state,     *)
(* date D and only_fill_required flag, the responses (assignments and     *)
(* notes) that solve_range(D, D) can return are exactly those that        *)
(* solve_day(D) can return.                                               *)
C13_SameAnswers ==
    ( /\ pc = "built"
      /\ payload.endpoint = "week"
      /\ payload.endISO = payload.startISO
      /\ payload.dateISO = payload.startISO )
    => WeekAnswers = DayAnswers

C15_Idempotent ==
    (locals.op = "normalize" /\ locals.input_normal) => state = locals.input

DeprecatedPoolIds == { "pool-not-allocated", "pool-manual" }

KeptPoolIds == { "pool-rest-day", "pool-vacation" }

HoldsDeprecatedPool(s) ==
    \/ \E i \in 1..Len(s.rows) : s.rows[i].id \in DeprecatedPoolIds
    \/ \E a \in s.assignments : Len(a.rowId) = 1 /\ a.rowId[1] \in DeprecatedPoolIds

(* C16: a state returned by _default_state() or by _normalize_state holds *)
(* no row pool-not-allocated or pool-manual and no assignment on either;  *)
(* normalising a state that held one reports changed; the rows            *)
(* pool-rest-day and pool-vacation of the input are still there.          *)
C16_NoDeprecatedPools ==
    /\ locals.op \in { "default", "normalize" } => ~HoldsDeprecatedPool(state)
    /\ locals.op = "normalize" =>
          /\ HoldsDeprecatedPool(locals.input) => locals.changed
          /\ \A id \in KeptPoolIds :
                id \in row_ids(locals.input.rows) => id \in row_ids(state.rows)

PoolRowIds(s) == { s.rows[i].id : i \in { k \in 1..Len(s.rows) : s.rows[k].kind = "pool" } }

FirstSlotOfClass(s, c) ==
    LET i == CHOOSE k \in 1..Len(s.rows) : s.rows[k].id = c
    IN  <<c, s.rows[i].subShifts[1].id>>

(* what C17 says becomes of one assignment of the input *)
ExpectedAssignment(a, s) ==
    IF Len(a.rowId) = 1 /\ a.rowId[1] \in ClassIdsOf(s.rows)
    THEN { [a EXCEPT !.rowId = FirstSlotOfClass(s, a.rowId[1])] }
    ELSE IF a.rowId \in SlotIdsOf(s.rows) THEN { a }
    ELSE IF Len(a.rowId) = 2 /\ a.rowId[1] \in ClassIdsOf(s.rows)
    THEN { [a EXCEPT !.rowId = FirstSlotOfClass(s, a.rowId[1])] }
    ELSE IF Len(a.rowId) = 1 /\ a.rowId[1] \in PoolRowIds(s) THEN { a }
    ELSE {}

(* C17: after _normalize_state every assignment's rowId is a live slot id *)
(* or the id of an existing pool row: a bare class id has become the      *)
(* class's first sub-shift, a composite id with a missing sub-shift has   *)
(* become the class's first sub-shift, and an assignment matching no live *)
(* slot and no pool row is gone.                                          *)
C17_LiveRowIds ==
    locals.op = "normalize" =>
        /\ \A a \in state.assignments :
              \/ a.rowId \in SlotIdsOf(state.rows)
              \/ Len(a.rowId) = 1 /\ a.rowId[1] \in PoolRowIds(state)
        /\ state.assignments =
              UNION { ExpectedAssignment(a, state) : a \in locals.input.assignments }

(* C18: after _normalize_state the keys of minSlotsByRowId are exactly    *)
(* the live slot ids, and the row part of every slotOverridesByKey key is *)
(* a live slot id, so that keys of a removed class, a removed sub-shift   *)
(* or an unknown id are gone.                                             *)
C18_LiveKeys ==
    locals.op = "normalize" =>
        /\ DOMAIN state.minSlotsByRowId = SlotIdsOf(state.rows)
        /\ \A key \in DOMAIN state.slotOverridesByKey : key[1] \in SlotIdsOf(state.rows)

(* the keys of the input that the last call's remap sent to next_key *)
OverrideSources(next_key) ==
    { key \in DOMAIN locals.input.slotOverridesByKey :
        OverrideTarget(key, state.rows, locals.pick) = {next_key} }

ClassRowIndices(s) == { i \in 1..Len(s.rows) : s.rows[i].kind = "class" }

(* C20: after _normalize_state every class row has one to three           *)
(* sub-shifts, their orders are values of {1,2,3} in strictly ascending   *)
(* order, and every endDayOffset lies in [0,3]; a class row that had no   *)
(* sub-shift has exactly one, of order 1, from the default start for the  *)
(* default duration.                                                      *)
C20_SubShifts ==
    locals.op = "normalize" =>
        \A i \in ClassRowIndices(state) :
            LET shifts == state.rows[i].subShifts
            IN  /\ Len(shifts) \in 1..3
                /\ \A k \in 1..Len(shifts) :
                      /\ shifts[k].order \in {1, 2, 3}
                      /\ shifts[k].endDayOffset \in 0..3
                      /\ k > 1 => shifts[k - 1].order < shifts[k].order
                /\ locals.input.rows[i].subShifts = <<>> =>
                      /\ Len(shifts) = 1
                      /\ shifts[1].order = 1
                      /\ shifts[1].startTime = DEFAULT_SUB_SHIFT_START
                      /\ shifts[1].endTime =
                            _format_minutes(DEFAULT_SUB_SHIFT_START_MINUTES
                                              + DEFAULT_SUB_SHIFT_MINUTES)

DeprecatedSettingKeys ==
    { "allowMultipleShiftsPerDay", "showDistributionPool", "showReservePool" }

(* C21: after _normalize_state the solver settings hold none of the keys  *)
(* allowMultipleShiftsPerDay, showDistributionPool and showReservePool    *)
(* (and changed is reported when the input held one), and they hold       *)
(* workingHoursToleranceHours with a value in [0,40]: 5 when the input    *)
(* had none, else the input value brought to the nearest bound.           *)
C21_SettingsSchema ==
    locals.op = "normalize" =>
        LET before == locals.input.solverSettings
            after  == state.solverSettings
        IN  /\ DOMAIN after \cap DeprecatedSettingKeys = {}
            /\ DOMAIN before \cap DeprecatedSettingKeys # {} => locals.changed
            /\ "workingHoursToleranceHours" \in DOMAIN after
            /\ after["workingHoursToleranceHours"] =
                  IF "workingHoursToleranceHours" \in DOMAIN before
                  THEN Max(0, Min(40, before["workingHoursToleranceHours"]))
                  ELSE 5

(* what C22 says a rest-day count becomes *)
ClampedDays(settings, key) ==
    IF key \notin DOMAIN settings \/ settings[key] = NotANumber THEN 1
    ELSE IF settings[key] > 7 THEN 7
    ELSE IF settings[key] < 0 THEN 0
    ELSE settings[key]

RestDaysClamped ==
    \A key \in { "onCallRestDaysBefore", "onCallRestDaysAfter" } :
        /\ state.solverSettings[key] \in 0..7
        /\ state.solverSettings[key] = ClampedDays(locals.input.solverSettings, key)

RestClassKept ==
    LET before == locals.input.solverSettings
    IN  ("onCallRestClassId" \in DOMAIN before
           /\ before["onCallRestClassId"] \in ClassIdsOf(state.rows))
        => state.solverSettings.onCallRestClassId = before["onCallRestClassId"]

RestClassReset ==
    LET before == locals.input.solverSettings
    IN  ("onCallRestClassId" \notin DOMAIN before
           \/ before["onCallRestClassId"] \notin ClassIdsOf(state.rows))
        => state.solverSettings.onCallRestClassId =
              state.rows[CHOOSE i \in ClassRowIndices(state) :
                            \A k \in ClassRowIndices(state) : i <= k].id

(* C22 as stated: after _normalize_state the two rest-day counts are      *)
(* integers in [0,7], an out-of-range input being brought to the nearest  *)
(* bound, and onCallRestClassId is the id of an existing class row: the   *)
(* input value when that is a live class id, else the first class row.    *)
C22_RestSettings ==
    locals.op = "normalize" =>
        /\ RestDaysClamped
        /\ state.solverSettings.onCallRestClassId \in ClassIdsOf(state.rows)
        /\ RestClassKept

(* C22, amended: the same for the rest-day counts; onCallRestClassId is   *)
(* the id of an existing class row whenever the state has a class row,    *)
(* the input value when that is a live class id and else the first class  *)
(* row; in a state without class rows it is None.                         *)
C22_RestSettingsWithClass ==
    locals.op = "normalize" =>
        /\ RestDaysClamped
        /\ RestClassKept
        /\ IF ClassRowIndices(state) = {}
           THEN state.solverSettings.onCallRestClassId = ""
           ELSE /\ state.solverSettings.onCallRestClassId \in ClassIdsOf(state.rows)
                /\ RestClassReset

(* C22: a count of 20 was clamped to 7 and a dead class id was reset *)
C22_Witness ==
    /\ locals.op = "normalize"
    /\ "onCallRestDaysBefore" \in DOMAIN locals.input.solverSettings
    /\ locals.input.solverSettings["onCallRestDaysBefore"] = 20
    /\ state.solverSettings.onCallRestDaysBefore = 7
    /\ "onCallRestClassId" \in DOMAIN locals.input.solverSettings
    /\ locals.input.solverSettings["onCallRestClassId"] = "Z"
    /\ state.solverSettings.onCallRestClassId = "A"

ClockMinutes(t) == t[1] * 60 + t[2]

(* the length C23 gives the interval of a slot *)
StatedLength(sid) ==
    (ClockMinutes(SlotShift(sid).endTime) - ClockMinutes(SlotShift(sid).startTime))
      + SlotShift(sid).endDayOffset * 1440

(* C23: the interval the range solver uses for a slot starts at the       *)
(* slot's start time and is (endTime - startTime) + endDayOffset * 1440   *)
(* minutes long, for every valid start and end time including 00:00; on   *)
(* date D it is shifted by day_index(D) * 1440.  Where that length is not *)
(* positive both intervals are empty.                                     *)
C23_Intervals ==
    (pc = "built" /\ payload.endpoint = "week") =>
        \A sid \in SlotIds :
            LET used == locals.shift_intervals[sid]
            IN  /\ used.start = ClockMinutes(SlotShift(sid).startTime)
                /\ IF StatedLength(sid) <= 0 THEN used.end <= used.start
                   ELSE used.end = used.start + StatedLength(sid)
                /\ \A d \in day_isos :
                      /\ AbsInterval(d, sid).start = used.start + day_index_by_iso(d) * 1440
                      /\ AbsInterval(d, sid).end = used.end + day_index_by_iso(d) * 1440

(* a slot as C24 describes it: endTime <= startTime and endDayOffset = 0 *)
IsDegenerate(sid) ==
    /\ ClockMinutes(SlotShift(sid).endTime) <= ClockMinutes(SlotShift(sid).startTime)
    /\ SlotShift(sid).endDayOffset = 0

(* C24: in the model the range solver builds, the variable of a slot with *)
(* endTime <= startTime and endDayOffset = 0 is in no overlap constraint: *)
(* the overlap test is false against every other variable of the same     *)
(* clinician and against every manual assignment of that clinician.       *)
C24_DegenerateNeverOverlaps ==
    (pc = "built" /\ payload.endpoint = "week") =>
        \A v \in locals.var_map :
            IsDegenerate(v[3]) =>
                /\ \A w \in locals.var_map :
                      (w # v /\ w[1] = v[1]) =>
                          ~overlaps(AbsInterval(v[2], v[3]), AbsInterval(w[2], w[3]))
                /\ \A m \in locals.manual_assignments :
                      m.clinicianId = v[1] =>
                          ~overlaps(AbsInterval(v[2], v[3]), AbsInterval(m.dateISO, m.rowId))

(* C25: solve_range never returns an assignment of a clinician to a slot  *)
(* on a date for which the state already holds a manual assignment of     *)
(* that clinician to that slot on that date.                              *)
C25_ManualNotReturned ==
    AnsweredWeek =>
        \A a \in Returned :
            ~\E m \in state.assignments :
                /\ m.clinicianId = a.clinicianId
                /\ m.dateISO = a.dateISO
                /\ m.rowId = a.rowId

ClinicianIds == { c.id : c \in state.clinicians }

ReturnedFor(cid, d) == { a \in Returned : a.clinicianId = cid /\ a.dateISO = d }

HasManualSlot(cid, d) ==
    \E m \in ManualSlots : m.clinicianId = cid /\ m.dateISO = d

HasAssignment(cid, d) ==
    \E m \in state.assignments : m.clinicianId = cid /\ m.dateISO = d

HasCountedAssignment(cid, d) ==
    \E m \in state.assignments :
        m.clinicianId = cid /\ m.dateISO = d /\ m.rowId \notin ignored_pool_rows

WeekCap ==
    (AnsweredWeek /\ ~state.solverSettings.allowMultipleShiftsPerDay) =>
        \A cid \in ClinicianIds : \A d \in TargetDates :
            /\ Cardinality(ReturnedFor(cid, d)) <= 1
            /\ HasManualSlot(cid, d) => ReturnedFor(cid, d) = {}

AnsweredDay == Answered /\ payload.endpoint = "day"

C26_DayWitness ==
    /\ AnsweredDay
    /\ \E c \in state.clinicians :
          /\ HasCountedAssignment(c.id, payload.dateISO)
          /\ ~HasManualSlot(c.id, payload.dateISO)
          /\ \E sid \in SlotIds : sid[1] \in c.qualifiedClassIds
          /\ ReturnedFor(c.id, payload.dateISO) = {}

(* C27: the changed flag of _normalize_state is exact: it is true exactly *)
(* when the returned state differs from the input state, and after        *)
(* _load_state or set_state the stored state is the returned one.         *)
C27_ChangedExact ==
    locals.op = "normalize" =>
        /\ locals.changed <=> (state # locals.input)
        /\ store = state

(* C27 witness: a call that repaired its input, flagged it and left the   *)
(* repaired state in the store.                                           *)
C27_Witness ==
    /\ locals.op = "normalize"
    /\ locals.changed
    /\ state # locals.input
    /\ store = state

(* C27, the other case: a second call on a stored state that needs no     *)
(* repair returns it unflagged.                                           *)
C27_QuietWitness ==
    /\ locals.op = "normalize"
    /\ locals.passes = 2
    /\ ~locals.changed
    /\ state = locals.input

BothFinished == pc.load = "done" /\ pc.set = "done"

(* C28: when a set_state of the same user commits between the read of    *)
(* _load_state and its write-back, the stored state after both requests   *)
(* have finished is the one set_state wrote.                              *)
C28_NewerStateKept ==
    (BothFinished /\ locals.committed_between) => store = locals.posted

RequestFinished(op) == pc = "idle" /\ payload.op = op /\ response.kind # "none"

(* C29: publish_ical and rotate_ical of a published user complete         *)
(* successfully, whatever the stored state of the user is: every finished *)
(* publish, and every finished rotate of a user who had a publication,    *)
(* answers with the publication status.                                   *)
C29_PublishSucceeds ==
    /\ RequestFinished("publish") => response.kind = "ok"
    /\ (RequestFinished("rotate") /\ locals.before_feed # NoToken) => response.kind = "ok"

(* C30: download_ical resolves a token only if it is the user's current  *)
(* feed token or a current per-clinician token; publish on a published    *)
(* user returns the same feed token; after rotate none of the tokens that *)
(* resolved before resolves; after unpublish no token resolves.           *)
C30_TokenLifecycle ==
    /\ (RequestFinished("download") /\ response.kind = "ok") =>
          payload.token \in CurrentTokens(locals)
    /\ (RequestFinished("publish") /\ locals.before_feed # NoToken) =>
          /\ response.kind = "ok"
          /\ response.token = locals.before_feed
          /\ locals.feed = locals.before_feed
    /\ (RequestFinished("rotate") /\ locals.before_feed # NoToken) =>
          /\ locals.feed # locals.before_feed
          /\ locals.before \cap CurrentTokens(locals) = {}
    /\ RequestFinished("unpublish") => CurrentTokens(locals) = {}

====
